---- MODULE Spec2Model ----
(***************************************************************************)
(* Model of the object-operation orchestration layer of s3n-browser:       *)
(* the storage commands and queries (src/lib/s3), the server actions with  *)
(* their listing cache (src/actions), the navigation hook and the          *)
(* operation orchestrator (src/hooks/s3).                                  *)
(*                                                                         *)
(* A JavaScript string is a sequence of one-character strings, so that     *)
(* split, join, endsWith and replace are operators that do what the        *)
(* JavaScript functions do.  null is a sentinel that is not a string.      *)
(***************************************************************************)
EXTENDS Naturals, Integers, Sequences, FiniteSets, TLC

\* ------------------------------------------------------------------------
\* Bounds of the model
\* ------------------------------------------------------------------------

\* Orchestrator calls in one behaviour; the behaviour ends with the last.
MaxOps == 1

\* Backend calls that throw in one behaviour.
MaxFaults == 1

\* Longest object key stored in the bucket.
MaxKeyLen == 7

\* ------------------------------------------------------------------------
\* JavaScript strings
\* ------------------------------------------------------------------------

Char == {".", "/", "a", "b", "f", "g", "n"}

\* UTF-8 code point order of the characters used in keys.
CharOrd == [c \in Char |->
    CASE c = "." -> 46 [] c = "/" -> 47 [] c = "a" -> 97 [] c = "b" -> 98
      [] c = "f" -> 102 [] c = "g" -> 103 [] c = "n" -> 110]

Slash == <<"/">>
Empty == <<>>

\* The null of a string-valued field.
Null == <<"null">>

\* Array.prototype.at(-1)
Last(s) == s[Len(s)]

\* String.prototype.endsWith for a one-character suffix
EndsWith(s, c) == Len(s) > 0 /\ s[Len(s)] = c

\* String.prototype.startsWith for a one-character prefix
StartsWith(s, c) == Len(s) > 0 /\ s[1] = c

\* String.prototype.startsWith for a string prefix
IsPrefix(p, s) == Len(p) <= Len(s) /\ SubSeq(s, 1, Len(p)) = p

\* String.prototype.indexOf(c) + 1 for a character, 0 when absent
IndexOf(s, c) ==
    IF \E i \in 1..Len(s) : s[i] = c
    THEN CHOOSE i \in 1..Len(s) : s[i] = c /\ \A j \in 1..(i - 1) : s[j] # c
    ELSE 0

\* String.prototype.lastIndexOf(c) + 1 for a character, 0 when absent
LastIndexOf(s, c) ==
    IF \E i \in 1..Len(s) : s[i] = c
    THEN CHOOSE i \in 1..Len(s) : s[i] = c /\ \A j \in (i + 1)..Len(s) : s[j] # c
    ELSE 0

RECURSIVE Split(_, _)
\* String.prototype.split(c): the segments between the occurrences of c
Split(s, c) ==
    LET i == IndexOf(s, c) IN
    IF i = 0 THEN <<s>>
    ELSE <<SubSeq(s, 1, i - 1)>> \o Split(SubSeq(s, i + 1, Len(s)), c)

RECURSIVE Join(_, _)
\* Array.prototype.join(c)
Join(parts, c) ==
    IF Len(parts) = 0 THEN Empty
    ELSE IF Len(parts) = 1 THEN parts[1]
    ELSE parts[1] \o <<c>> \o Join(Tail(parts), c)

\* Array.prototype.filter(Boolean) on an array of strings
FilterBoolean(parts) == SelectSeq(parts, LAMBDA p : p # Empty)

\* String.prototype.replace(pat, rep) with a string pattern: the first
\* occurrence only
Replace(s, pat, rep) ==
    LET Hits == {i \in 1..(Len(s) - Len(pat) + 1) :
                    SubSeq(s, i, i + Len(pat) - 1) = pat} IN
    IF Hits = {} THEN s
    ELSE LET i == CHOOSE h \in Hits : \A g \in Hits : h <= g IN
         SubSeq(s, 1, i - 1) \o rep \o SubSeq(s, i + Len(pat), Len(s))

\* Binary (UTF-8) order of two strings, the order of an S3 listing
RECURSIVE StrLess(_, _)
StrLess(s, t) ==
    IF Len(t) = 0 THEN FALSE
    ELSE IF Len(s) = 0 THEN TRUE
    ELSE IF s[1] # t[1] THEN CharOrd[s[1]] < CharOrd[t[1]]
    ELSE StrLess(Tail(s), Tail(t))

RECURSIVE SortStr(_)
\* The strings of a finite set in binary order
SortStr(S) ==
    IF S = {} THEN <<>>
    ELSE LET m == CHOOSE x \in S : \A y \in S \ {x} : StrLess(x, y) IN
         <<m>> \o SortStr(S \ {m})

\* The elements of a sequence
Range(s) == {s[i] : i \in 1..Len(s)}

\* const name = value; In(name): the value is computed once
Const(value, In(_)) == In(value)


\* ------------------------------------------------------------------------
\* OperationResult (lib/responses/operation-result.ts, s3-responses.ts)
\* ------------------------------------------------------------------------

\* An optional field holds {} (undefined) or a one-element set.
Undefined == "undefined"

\* OperationResult.Success(data)
Success(data) ==
    [success |-> TRUE, data |-> {data}, message |-> Undefined, error |-> Undefined]

\* OperationResult.Failure(message, error)
Failure(message, error) ==
    [success |-> FALSE, data |-> {}, message |-> message, error |-> error]

\* Variant of ConvertFailure that does not carry the message over
ConvertFailure_DropsMessage(failureResult) ==
    [success |-> FALSE, data |-> {},
     message |-> Undefined, error |-> failureResult.error]

\* OperationResult.ConvertFailure(failureResult)
ConvertFailure(failureResult) ==
    [success |-> FALSE, data |-> {},
     message |-> failureResult.message, error |-> failureResult.error]

\* S3Responses.DestinationKeyExist
DestinationKeyExist ==
    Failure("Destination key already exists, copy operation aborted",
            "Destination key already exists, copy operation aborted")

\* S3Responses.FileNameExists
FileNameExists ==
    Failure("Object already exists. Please choose a different name.",
            "Object already exists. Please choose a different name.")

\* ------------------------------------------------------------------------
\* The storage backend behind client.send
\*
\* A handler run threads st = [bucket, log, n, relists, dispatch]: the
\* stored keys, the backend calls issued so far in this run, their number,
\* the number of listing refreshes (getS3Objects) of the run, and the
\* arguments dispatchS3Action was called with.  F is the set of
\* call numbers of this run at which the backend throws an error other
\* than NotFound (transport, auth, service exception).
\* ------------------------------------------------------------------------

\* Keys returned by one ListObjectsV2 response: the service's page size
\* (1000 keys), scaled to the size of the bucket.
MaxKeys == 3

NoDispatch ==
    [operationType |-> "null", objectType |-> "null", sourceKey |-> Null,
     destination |-> Null]

NewRun(b) ==
    [bucket |-> b, log |-> <<>>, n |-> 0, relists |-> 0, dispatch |-> NoDispatch]

Thrown(st, F) == (st.n + 1) \in F

\* The log of a run with one more call: the command, its key (and source),
\* its outcome "ok", "NotFound" or "error", and whether an object was stored
\* at the key when the call was issued.
Logged(st, call, key, src, out) ==
    Append(st.log, [call |-> call, key |-> key, src |-> src, out |-> out,
                    present |-> key \in st.bucket])

Outcome(ok) == IF ok THEN "ok" ELSE "error"

\* client.send(new HeadObjectCommand({Key: key}))
\* out is "ok", "NotFound" or "error"
HeadObjectSend(st, F, key) ==
    Const(IF Thrown(st, F) THEN "error"
          ELSE IF key \in st.bucket THEN "ok" ELSE "NotFound", LAMBDA out :
    [st |-> [st EXCEPT !.n = st.n + 1,
                       !.log = Logged(st, "HeadObject", key, Empty, out)],
     out |-> out])

\* client.send(new CopyObjectCommand({CopySource: src, Key: dst}))
\* throws NoSuchKey when the source is not stored
CopyObjectSend(st, F, src, dst) ==
    Const(~Thrown(st, F) /\ src \in st.bucket, LAMBDA ok :
    [st |-> [st EXCEPT !.bucket = IF ok THEN st.bucket \cup {dst} ELSE st.bucket,
                       !.log = Logged(st, "CopyObject", dst, src, Outcome(ok)),
                       !.n = st.n + 1],
     ok |-> ok])

\* client.send(new DeleteObjectCommand({Key: key}))
DeleteObjectSend(st, F, key) ==
    Const(~Thrown(st, F), LAMBDA ok :
    [st |-> [st EXCEPT !.bucket = IF ok THEN st.bucket \ {key} ELSE st.bucket,
                       !.log = Logged(st, "DeleteObject", key, Empty, Outcome(ok)),
                       !.n = st.n + 1],
     ok |-> ok])

\* client.send(new PutObjectCommand({Key: key, ContentLength: 0}))
PutObjectSend(st, F, key) ==
    Const(~Thrown(st, F), LAMBDA ok :
    [st |-> [st EXCEPT !.bucket = IF ok THEN st.bucket \cup {key} ELSE st.bucket,
                       !.log = Logged(st, "PutObject", key, Empty, Outcome(ok)),
                       !.n = st.n + 1],
     ok |-> ok])

\* The listing entry a stored key contributes under a prefix: the key
\* itself, or with a delimiter the common prefix up to the first delimiter
\* after the prefix.
ListEntry(k, prefix, delimited) ==
    LET rest == SubSeq(k, Len(prefix) + 1, Len(k))
        i == IndexOf(rest, "/") IN
    IF delimited /\ i > 0 THEN prefix \o SubSeq(rest, 1, i) ELSE k

\* The response of ListObjectsV2 for the bucket: the first MaxKeys entries
\* after the continuation token, in binary order
ListObjectsV2(bucket, prefix, delimited, token) ==
    LET matching == {k \in bucket : IsPrefix(prefix, k)}
        entries == {ListEntry(k, prefix, delimited) : k \in matching}
        after == IF token = Null THEN entries
                 ELSE {e \in entries : StrLess(token, e)}
        IsCommon(e) == delimited /\ IndexOf(SubSeq(e, Len(prefix) + 1, Len(e)), "/") > 0
        IsContent(e) == ~IsCommon(e) IN
    Const(SortStr(after), LAMBDA sorted :
    Const(SubSeq(sorted, 1, IF Len(sorted) < MaxKeys THEN Len(sorted) ELSE MaxKeys),
          LAMBDA page :
    [Prefix |-> prefix,
     Contents |-> SelectSeq(page, IsContent),
     CommonPrefixes |-> SelectSeq(page, IsCommon),
     NextContinuationToken |->
        IF Len(sorted) > MaxKeys THEN page[Len(page)] ELSE Null]))

\* client.send(new ListObjectsV2Command({Prefix, Delimiter}))
ListObjectsV2Send(st, F, prefix, delimited, token) ==
    Const(~Thrown(st, F), LAMBDA ok :
    [st |-> [st EXCEPT !.n = st.n + 1,
                       !.log = Logged(st, "ListObjectsV2", prefix, Empty, Outcome(ok))],
     ok |-> ok,
     response |-> ListObjectsV2(st.bucket, prefix, delimited, token)])


\* ------------------------------------------------------------------------
\* Storage queries (lib/s3/s3-queries.ts) and listing conversion
\* (lib/s3/s3-helpers.ts)
\* ------------------------------------------------------------------------

\* handlePrefixNameSplit
handlePrefixNameSplit(prefix) ==
    LET parts == Split(prefix, "/") IN
    IF Len(parts) >= 2 THEN parts[Len(parts) - 1] ELSE parts[1]

RECURSIVE ContentsToS3Object(_, _)
\* ListObjectsV2CommandOutputToS3Object, the response.Contents.forEach loop
ContentsToS3Object(contents, prefix) ==
    IF Len(contents) = 0 THEN <<>>
    ELSE LET key == contents[1]
             rest == ContentsToS3Object(Tail(contents), prefix) IN
         IF key = prefix THEN rest
         ELSE IF Split(key, ".")[1] = key \/ EndsWith(key, "/")
              THEN <<[type |-> "DIRECTORY", key |-> key,
                      name |-> Last(Split(key, "/"))]>> \o rest
              ELSE <<[type |-> "FILE", key |-> key,
                      name |-> Last(Split(key, "/"))]>> \o rest

\* ListObjectsV2CommandOutputToS3Object
ListObjectsV2CommandOutputToS3Object(response) ==
    [i \in 1..Len(response.CommonPrefixes) |->
        [type |-> "DIRECTORY", key |-> response.CommonPrefixes[i],
         name |-> handlePrefixNameSplit(response.CommonPrefixes[i])]]
    \o ContentsToS3Object(response.Contents, response.Prefix)

\* getObjectsByKeyCommand(key, '/')
getObjectsByKeyCommand(st, F, key) ==
    Const(ListObjectsV2Send(st, F, key, TRUE, Null), LAMBDA r :
    [st |-> r.st,
     res |-> IF r.ok
             THEN Success(ListObjectsV2CommandOutputToS3Object(r.response))
             ELSE Failure("Error fetching S3 objects", "error")])

\* Variant of checkIfObjectKeyExists that reports NotFound like any other
\* error of the backend
checkIfObjectKeyExists_NotFoundFails(st, F, key) ==
    Const(HeadObjectSend(st, F, key), LAMBDA r :
    [st |-> r.st,
     res |-> IF r.out = "ok" THEN Success(TRUE)
             ELSE Failure("Error checking if S3 object exists", "error")])

\* checkIfObjectKeyExists(key)
checkIfObjectKeyExists(st, F, key) ==
    Const(HeadObjectSend(st, F, key), LAMBDA r :
    [st |-> r.st,
     res |-> IF r.out = "ok" THEN Success(TRUE)
             ELSE IF r.out = "NotFound" THEN Success(FALSE)
             ELSE Failure("Error checking if S3 object exists", "error")])

\* listAllS3ObjectsInDirectory(rootKey)
listAllS3ObjectsInDirectory(st, F, rootKey) ==
    LET p1 == IF rootKey = Slash THEN Empty
              ELSE IF StartsWith(rootKey, "/") THEN Tail(rootKey)
              ELSE rootKey
        prefix == IF p1 # Empty /\ ~EndsWith(p1, "/") THEN p1 \o Slash ELSE p1 IN
    Const(ListObjectsV2Send(st, F, prefix, FALSE, Null), LAMBDA r :
    [st |-> r.st,
     res |-> IF r.ok THEN Success(r.response.Contents)
             ELSE Failure("Error fetching S3 objects", "error")])


\* ------------------------------------------------------------------------
\* Storage mutations (lib/s3/s3-commands.ts)
\* ------------------------------------------------------------------------

\* !response for a response that is an OperationResult object: an object is
\* never falsy.
IsFalsy(response) == FALSE

\* transformS3DirectoryKeys(currentObjectKey, destinationKey)
transformS3DirectoryKeys(currentObjectKey, destinationKey) ==
    LET normalizedDestKey == IF EndsWith(destinationKey, "/") THEN destinationKey
                             ELSE destinationKey \o Slash
        sourcePrefix == Split(currentObjectKey, "/")[1] \o Slash IN
    Replace(currentObjectKey, sourcePrefix, normalizedDestKey)

\* Variant of copyS3ObjectCommand that probes the destination key and copies
\* whatever the probe answers
copyS3ObjectCommand_IgnoresProbe(st, F, sourceKey, destinationKey) ==
    Const(checkIfObjectKeyExists(st, F, destinationKey), LAMBDA existOperationResult :
    Const(CopyObjectSend(existOperationResult.st, F, sourceKey, destinationKey),
          LAMBDA c :
    [st |-> c.st,
     res |-> IF c.ok THEN Success(TRUE)
             ELSE Failure("Error copying S3 object", "error")]))

\* copyS3ObjectCommand(sourceKey, destinationKey)
copyS3ObjectCommand(st, F, sourceKey, destinationKey) ==
    Const(checkIfObjectKeyExists(st, F, destinationKey), LAMBDA existOperationResult :
    IF existOperationResult.res.success /\ TRUE \in existOperationResult.res.data
    THEN [st |-> existOperationResult.st, res |-> DestinationKeyExist]
    ELSE Const(CopyObjectSend(existOperationResult.st, F, sourceKey, destinationKey),
               LAMBDA c :
         [st |-> c.st,
          res |-> IF c.ok THEN Success(TRUE)
                  ELSE Failure("Error copying S3 object", "error")]))

RECURSIVE checkIfDestinationDirectoryExist(_, _, _, _)
\* checkIfDestinationDirectoryExist(objects, destinationKey)
checkIfDestinationDirectoryExist(st, F, objects, destinationKey) ==
    IF Len(objects) = 0 THEN [st |-> st, res |-> Success(FALSE)]
    ELSE Const(checkIfObjectKeyExists(st, F,
                   transformS3DirectoryKeys(objects[1], destinationKey)),
               LAMBDA existOperationResult :
         IF existOperationResult.res.success /\ TRUE \in existOperationResult.res.data
         THEN [st |-> existOperationResult.st, res |-> Success(TRUE)]
         ELSE checkIfDestinationDirectoryExist(existOperationResult.st, F,
                                               Tail(objects), destinationKey))

RECURSIVE copyS3DirectoryLoop(_, _, _, _)
\* copyS3DirectoryCommand, the for loop over listOperationResult.data
copyS3DirectoryLoop(st, F, objects, destinationKey) ==
    IF Len(objects) = 0 THEN [st |-> st, res |-> Success(TRUE)]
    ELSE Const(copyS3ObjectCommand(st, F, objects[1],
                   transformS3DirectoryKeys(objects[1], destinationKey)),
               LAMBDA response :
         IF IsFalsy(response.res)
         THEN [st |-> response.st,
               res |-> Failure("Error copying S3 directory", "error")]
         ELSE copyS3DirectoryLoop(response.st, F, Tail(objects), destinationKey))

\* Variant of copyS3DirectoryCommand without the pre-check of the
\* destination keys: it starts to copy right after the listing
copyS3DirectoryCommand_NoPreCheck(st, F, sourceKey, destinationKey) ==
    Const(listAllS3ObjectsInDirectory(st, F, sourceKey), LAMBDA listOperationResult :
    IF ~listOperationResult.res.success \/ listOperationResult.res.data = {}
    THEN [st |-> listOperationResult.st,
          res |-> ConvertFailure(listOperationResult.res)]
    ELSE Const(CHOOSE d \in listOperationResult.res.data : TRUE, LAMBDA objects :
         copyS3DirectoryLoop(listOperationResult.st, F, objects, destinationKey)))

\* copyS3DirectoryCommand(sourceKey, destinationKey)
copyS3DirectoryCommand(st, F, sourceKey, destinationKey) ==
    Const(listAllS3ObjectsInDirectory(st, F, sourceKey), LAMBDA listOperationResult :
    IF ~listOperationResult.res.success \/ listOperationResult.res.data = {}
    THEN [st |-> listOperationResult.st,
          res |-> ConvertFailure(listOperationResult.res)]
    ELSE Const(CHOOSE d \in listOperationResult.res.data : TRUE, LAMBDA objects :
         Const(checkIfDestinationDirectoryExist(listOperationResult.st, F,
                                                objects, destinationKey),
               LAMBDA existOperationResult :
         IF TRUE \in existOperationResult.res.data
         THEN [st |-> existOperationResult.st, res |-> DestinationKeyExist]
         ELSE copyS3DirectoryLoop(existOperationResult.st, F, objects,
                                  destinationKey))))

\* deleteS3ObjectCommand(key)
deleteS3ObjectCommand(st, F, key) ==
    Const(DeleteObjectSend(st, F, key), LAMBDA d :
    [st |-> d.st,
     res |-> IF d.ok THEN Success(TRUE)
             ELSE Failure("Error deleting S3 object", "error")])

RECURSIVE deleteS3DirectoryLoop(_, _, _)
\* deleteS3DirectoryCommand, the for loop over listOperationResult.data
deleteS3DirectoryLoop(st, F, objects) ==
    IF Len(objects) = 0 THEN [st |-> st, res |-> Success(TRUE)]
    ELSE Const(deleteS3ObjectCommand(st, F, objects[1]), LAMBDA response :
         IF IsFalsy(response.res)
         THEN [st |-> response.st,
               res |-> Failure("Error deleting S3 directory", "error")]
         ELSE deleteS3DirectoryLoop(response.st, F, Tail(objects)))

\* deleteS3DirectoryCommand(key)
deleteS3DirectoryCommand(st, F, key) ==
    Const(listAllS3ObjectsInDirectory(st, F, key), LAMBDA listOperationResult :
    IF ~listOperationResult.res.success \/ listOperationResult.res.data = {}
    THEN [st |-> listOperationResult.st,
          res |-> ConvertFailure(listOperationResult.res)]
    ELSE deleteS3DirectoryLoop(listOperationResult.st, F,
                               CHOOSE d \in listOperationResult.res.data : TRUE))

\* moveS3ObjectCommand(sourceKey, destinationKey)
moveS3ObjectCommand(st, F, sourceKey, destinationKey) ==
    Const(copyS3ObjectCommand(st, F, sourceKey, destinationKey), LAMBDA copyResponse :
    IF ~copyResponse.res.success THEN copyResponse
    ELSE Const(deleteS3ObjectCommand(copyResponse.st, F, sourceKey),
               LAMBDA deleteResponse :
         IF ~deleteResponse.res.success THEN deleteResponse
         ELSE [st |-> deleteResponse.st, res |-> Success(TRUE)]))

\* moveS3DirectoryCommand(sourceKey, destinationKey)
moveS3DirectoryCommand(st, F, sourceKey, destinationKey) ==
    Const(copyS3DirectoryCommand(st, F, sourceKey, destinationKey), LAMBDA copyResponse :
    IF ~copyResponse.res.success THEN copyResponse
    ELSE Const(deleteS3DirectoryCommand(copyResponse.st, F, sourceKey),
               LAMBDA deleteResponse :
         IF ~deleteResponse.res.success THEN deleteResponse
         ELSE [st |-> deleteResponse.st, res |-> Success(TRUE)]))

\* renameS3ObjectCommand(key, destinationKey)
renameS3ObjectCommand(st, F, key, destinationKey) ==
    moveS3ObjectCommand(st, F, key, destinationKey)

\* renameS3DirectoryCommand(key, newLocationName)
renameS3DirectoryCommand(st, F, key, newLocationName) ==
    moveS3DirectoryCommand(st, F, key, newLocationName)

\* createS3FolderCommand(key)
createS3FolderCommand(st, F, key) ==
    Const(PutObjectSend(st, F, IF ~EndsWith(key, "/") THEN key \o Slash ELSE key),
          LAMBDA p :
    [st |-> p.st,
     res |-> IF p.ok THEN Success(TRUE)
             ELSE Failure("Error creating S3 object", "error")])

\* ------------------------------------------------------------------------
\* Signed URLs (lib/s3/s3-commands.ts, @aws-sdk/s3-request-presigner)
\*
\* Times are milliseconds (Date.now()).  An optional number is {} or {n}.
\* ------------------------------------------------------------------------

\* expiresIn * 1000: milliseconds of a second
MsPerSecond == 1000

\* S3_SIGNED_URL_EXPIRES, seconds: the configured lifetime of a signed URL
\* (900 when not configured), here a lifetime of two seconds
s3SignedUrlExpires == 2

\* getSignedUrl(client, command, {expiresIn}): the URL names the command,
\* its key, the time it was signed at and its lifetime in seconds
getSignedUrl(command, key, expiresIn, signedAt) ==
    [command |-> command, key |-> key, expiresIn |-> expiresIn,
     signedAt |-> signedAt]

\* The time up to which the service accepts a signed URL
ValidUntil(url) == url.signedAt + url.expiresIn * MsPerSecond

\* generateUploadPresignedUrl(key, overwrite); throws tells whether
\* getSignedUrl throws.  signed counts the signed URLs requested.
generateUploadPresignedUrl(st, F, throws, t, key, overwrite) ==
    Const(IF key = Null \/ key = Empty THEN Slash ELSE key, LAMBDA k :
    Const(checkIfObjectKeyExists(st, F, k), LAMBDA exists :
    IF exists.res.success /\ TRUE \in exists.res.data /\ ~overwrite
    THEN [st |-> exists.st, signed |-> 0, res |-> FileNameExists]
    ELSE [st |-> exists.st, signed |-> 1,
          res |-> IF throws THEN Failure("Error generating presigned URL", "error")
                  ELSE Success(getSignedUrl("PutObject", k, s3SignedUrlExpires, t))]))

\* signedUrlCache.set(key, value)
SignedUrlCacheSet(cache, key, value) ==
    [k \in DOMAIN cache \cup {key} |-> IF k = key THEN value ELSE cache[k]]

\* Variant of getSignedUrlCommand that serves a cached URL until the
\* moment it expires
getSignedUrlCommand_UntilExpiry(cache, throws, t, key, expiresInSecond) ==
    Const(IF expiresInSecond = {} THEN s3SignedUrlExpires
          ELSE CHOOSE e \in expiresInSecond : TRUE, LAMBDA expiresIn :
    IF key \in DOMAIN cache /\ cache[key].expiresAt > t
    THEN [signedUrlCache |-> cache, signed |-> 0, res |-> Success(cache[key].url)]
    ELSE IF throws
    THEN [signedUrlCache |-> cache, signed |-> 1,
          res |-> Failure("Error generating signed URL", "error")]
    ELSE Const(getSignedUrl("GetObject", key, expiresIn, t), LAMBDA url :
         [signedUrlCache |->
              SignedUrlCacheSet(cache, key,
                  [url |-> url, expiresAt |-> t + expiresIn * MsPerSecond]),
          signed |-> 1, res |-> Success(url)]))

\* getSignedUrlCommand(key, expiresInSecond) called at Date.now() = t
getSignedUrlCommand(cache, throws, t, key, expiresInSecond) ==
    Const(IF expiresInSecond = {} THEN s3SignedUrlExpires
          ELSE CHOOSE e \in expiresInSecond : TRUE, LAMBDA expiresIn :
    IF key \in DOMAIN cache /\ cache[key].expiresAt > t + expiresIn
    THEN [signedUrlCache |-> cache, signed |-> 0, res |-> Success(cache[key].url)]
    ELSE IF throws
    THEN [signedUrlCache |-> cache, signed |-> 1,
          res |-> Failure("Error generating signed URL", "error")]
    ELSE Const(getSignedUrl("GetObject", key, expiresIn, t), LAMBDA url :
         [signedUrlCache |->
              SignedUrlCacheSet(cache, key,
                  [url |-> url, expiresAt |-> t + expiresIn * MsPerSecond]),
          signed |-> 1, res |-> Success(url)]))


\* ------------------------------------------------------------------------
\* Key-path helpers (lib/s3/s3-helpers.ts) and the path store
\* (stores/slices/s3-path-slice)
\* ------------------------------------------------------------------------

\* convertSourceKeyToDestinationKey(sourceKey, destinationKey)
convertSourceKeyToDestinationKey(sourceKey, destinationKey) ==
    LET sourceParts == Split(sourceKey, "/")
        sourceName == IF EndsWith(sourceKey, "/")
                      THEN sourceParts[Len(sourceParts) - 1] \o Slash
                      ELSE sourceParts[Len(sourceParts)] IN
    IF EndsWith(destinationKey, "/") THEN destinationKey \o sourceName
    ELSE destinationKey

\* renameDestinationKey(destinationKey, newName)
renameDestinationKey(destinationKey, newName) ==
    IF EndsWith(destinationKey, "/")
    THEN LET parts == FilterBoolean(Split(destinationKey, "/"))
             \* parts[parts.length - 1] = newName; on an empty array this
             \* sets the property "-1", which join ignores
             renamed == IF Len(parts) = 0 THEN parts
                        ELSE [parts EXCEPT ![Len(parts)] = newName]
             result == Slash \o Join(renamed, "/") IN
         IF EndsWith(result, "/") THEN result ELSE result \o Slash
    ELSE LET parts == Split(destinationKey, "/") IN
         Join([parts EXCEPT ![Len(parts)] = newName], "/")

\* setPath(key): the value stored in path
setPath(key) ==
    IF key = Slash \/ key = Empty THEN Empty
    ELSE LET k == IF StartsWith(key, "/") THEN Tail(key) ELSE key IN
         IF EndsWith(k, "/") THEN k ELSE k \o Slash

\* ------------------------------------------------------------------------
\* Server actions (actions/s3-actions.ts) and navigation
\* (hooks/s3/use-s3-navigation.ts)
\*
\* A handler works on w = [st, s3ObjectCache, s3Objects, path, sourceKey,
\* operationType, operationMessage] and returns [w, res].
\* ------------------------------------------------------------------------

\* s3ObjectCache.set(key, value)
CacheSet(cache, key, value) ==
    [k \in DOMAIN cache \cup {key} |-> IF k = key THEN value ELSE cache[k]]

\* getObjectsAction(key, undefined, forceRefresh)
getObjectsAction(w, F, key, forceRefresh) ==
    IF key \in DOMAIN w.s3ObjectCache /\ ~forceRefresh
    THEN [w |-> w, res |-> w.s3ObjectCache[key]]
    ELSE Const(getObjectsByKeyCommand(w.st, F, key), LAMBDA result :
         [w |-> [w EXCEPT !.st = result.st,
                          !.s3ObjectCache = CacheSet(@, key, result.res)],
          res |-> result.res])

\* getS3Objects(key, refresh)
getS3Objects(w, F, key, refresh) ==
    Const(getObjectsAction([w EXCEPT !.st.relists = @ + 1], F, key, refresh),
          LAMBDA response :
    IF ~response.res.success \/ response.res.data = {}
    THEN [w |-> response.w, res |-> ConvertFailure(response.res)]
    ELSE [w |-> [response.w EXCEPT
                    !.s3Objects = CHOOSE d \in response.res.data : TRUE,
                    !.path = setPath(key)],
          res |-> Success(TRUE)])

\* updateS3Objects(key)
updateS3Objects(w, F, key) ==
    getS3Objects([w EXCEPT !.path = setPath(key)], F, key, TRUE)

\* toParentDirectory()
toParentDirectory(w, F) ==
    Const(IF EndsWith(w.path, "/") THEN SubSeq(w.path, 1, Len(w.path) - 1)
          ELSE w.path, LAMBDA trimmedPath :
    Const(LastIndexOf(trimmedPath, "/") - 1, LAMBDA lastSlashIndex :
    IF w.path = Slash \/ w.path = Empty
    THEN [w |-> w, res |-> Success(TRUE)]
    ELSE IF lastSlashIndex <= 0
    THEN Const(getS3Objects(w, F, Empty, FALSE), LAMBDA r :
         [w |-> [r.w EXCEPT !.path = setPath(Empty)], res |-> r.res])
    ELSE getS3Objects(w, F, SubSeq(trimmedPath, 1, lastSlashIndex) \o Slash, FALSE)))


\* ------------------------------------------------------------------------
\* Operation orchestrator (hooks/s3/use-s3-object-operations.ts) and the
\* operation context (stores/slices/s3-object-slice.ts)
\* ------------------------------------------------------------------------

\* FileOperationType, and "null" for no operation
FileOperationType == {"rename", "delete", "copy", "move", "create"}

\* resetFileOperation()
resetFileOperation(w) ==
    [w EXCEPT !.sourceKey = Null, !.operationType = "null",
              !.operationMessage = "null"]

\* getDefaultMessage(operation)
getDefaultMessage(operation) ==
    CASE operation = "move" -> "Moving S3 object..."
      [] operation = "copy" -> "Copying S3 object..."
      [] operation = "delete" -> "Deleting S3 object..."
      [] operation = "rename" -> "Renaming S3 object..."
      [] operation = "create" -> "Creating S3 directory..."
      [] OTHER -> "Processing S3 operation..."

\* updateProcessingState(operation)
updateProcessingState(w, operation) ==
    [w EXCEPT !.operationMessage = getDefaultMessage(operation)]

\* setOperationContext(key, operationType)
setOperationContext(w, key, operationType) ==
    IF key = Empty
    THEN [w |-> w, res |-> Failure("Key cannot be empty", Undefined)]
    ELSE [w |-> [w EXCEPT !.sourceKey = key, !.operationType = operationType],
          res |-> Success(TRUE)]

\* dispatchS3Action, the switch over operationType and objectType
DispatchSwitch(st, F, operationType, objectType, sourceKey, destination) ==
    CASE operationType = "create" /\ objectType = "DIRECTORY" ->
            createS3FolderCommand(st, F, destination)
      [] operationType = "move" /\ objectType = "FILE" ->
            moveS3ObjectCommand(st, F, sourceKey, destination)
      [] operationType = "move" /\ objectType = "DIRECTORY" ->
            moveS3DirectoryCommand(st, F, sourceKey, destination)
      [] operationType = "copy" /\ objectType = "FILE" ->
            copyS3ObjectCommand(st, F, sourceKey, destination)
      [] operationType = "copy" /\ objectType = "DIRECTORY" ->
            copyS3DirectoryCommand(st, F, sourceKey, destination)
      [] operationType = "rename" /\ objectType = "FILE" ->
            renameS3ObjectCommand(st, F, sourceKey, destination)
      [] operationType = "rename" /\ objectType = "DIRECTORY" ->
            renameS3DirectoryCommand(st, F, sourceKey, destination)
      [] operationType = "delete" /\ objectType = "FILE" ->
            deleteS3ObjectCommand(st, F, sourceKey)
      [] operationType = "delete" /\ objectType = "DIRECTORY" ->
            deleteS3DirectoryCommand(st, F, sourceKey)
      [] OTHER ->
            [st |-> st, res |-> Failure("Invalid operation or file type", Undefined)]

\* Variant of dispatchS3Action that refreshes the listing and resets the
\* operation context whatever the response is
dispatchS3Action_AlwaysResets(w, F, operationType, objectType, sourceKey, destination) ==
    Const(DispatchSwitch(w.st, F, operationType, objectType, sourceKey, destination),
          LAMBDA response :
    Const([w EXCEPT !.st = [response.st EXCEPT !.dispatch =
                    [operationType |-> operationType, objectType |-> objectType,
                     sourceKey |-> sourceKey, destination |-> destination]]],
          LAMBDA w1 :
    [w |-> resetFileOperation(getS3Objects(w1, F, w1.path, FALSE).w),
     res |-> response.res]))

\* dispatchS3Action(operationType, objectType, sourceKey, destination)
dispatchS3Action(w, F, operationType, objectType, sourceKey, destination) ==
    Const(DispatchSwitch(w.st, F, operationType, objectType, sourceKey, destination),
          LAMBDA response :
    Const([w EXCEPT !.st = [response.st EXCEPT !.dispatch =
                    [operationType |-> operationType, objectType |-> objectType,
                     sourceKey |-> sourceKey, destination |-> destination]]],
          LAMBDA w1 :
    IF response.res.success
    THEN [w |-> resetFileOperation(getS3Objects(w1, F, w1.path, FALSE).w),
          res |-> response.res]
    ELSE [w |-> w1, res |-> response.res]))

\* validateAndDispatchS3Action(operationType, newName)
validateAndDispatchS3Action(w, F, operationType, newName) ==
    IF w.sourceKey = Null \/ w.sourceKey = Empty
    THEN [w |-> w, res |-> Failure("Missing required parameters", "error")]
    ELSE Const(IF EndsWith(w.sourceKey, "/") THEN "DIRECTORY" ELSE "FILE",
               LAMBDA objectType :
         IF operationType = "delete"
         THEN dispatchS3Action(w, F, operationType, objectType, w.sourceKey, Empty)
         ELSE Const(IF w.path = Empty THEN Slash ELSE w.path, LAMBDA destinationKey :
              Const(convertSourceKeyToDestinationKey(w.sourceKey, destinationKey),
                    LAMBDA converted :
              Const(IF newName # Null /\ newName # Empty
                    THEN renameDestinationKey(converted, newName)
                    ELSE converted, LAMBDA renamed :
              dispatchS3Action(w, F, operationType,
                               IF operationType = "create" THEN "DIRECTORY"
                               ELSE objectType,
                               w.sourceKey,
                               IF operationType = "create" /\ ~EndsWith(renamed, "/")
                               THEN renamed \o Slash ELSE renamed)))))

\* createS3Directory(newName)
createS3Directory(w, F, newName) ==
    IF w.operationType # "create"
    THEN [w |-> w, res |-> Failure("Invalid operation type for create operation",
                                   "Expected CREATE operation type")]
    ELSE IF newName = Empty
    THEN [w |-> w, res |-> Failure("New name cannot be empty", Undefined)]
    ELSE validateAndDispatchS3Action(updateProcessingState(w, "create"), F,
                                     "create", newName)

\* moveS3Object()
moveS3Object(w, F) ==
    IF w.operationType # "move"
    THEN [w |-> w, res |-> Failure("Opoeration type is not set to MOVE",
                                   "Expected MOVE operation type")]
    ELSE validateAndDispatchS3Action(updateProcessingState(w, "move"), F,
                                     "move", Null)

\* Variant of copyS3Object without the check of the stored operationType
copyS3Object_Unguarded(w, F) ==
    validateAndDispatchS3Action(updateProcessingState(w, "copy"), F,
                                "copy", Null)

\* copyS3Object()
copyS3Object(w, F) ==
    IF w.operationType # "copy"
    THEN [w |-> w, res |-> Failure("Operation type is not set to COPY",
                                   "Expected COPY operation type")]
    ELSE validateAndDispatchS3Action(updateProcessingState(w, "copy"), F,
                                     "copy", Null)

\* deleteS3Object()
deleteS3Object(w, F) ==
    IF w.operationType # "delete"
    THEN [w |-> w, res |-> Failure("Operation type is not set to DELETE",
                                   "Expected DELETE operation type")]
    ELSE validateAndDispatchS3Action(updateProcessingState(w, "delete"), F,
                                     "delete", Null)

\* renameS3Object(newName)
renameS3Object(w, F, newName) ==
    IF w.operationType # "rename"
    THEN [w |-> w, res |-> Failure("Operation type is not set to RENAME",
                                   "Expected RENAME operation type")]
    ELSE validateAndDispatchS3Action(updateProcessingState(w, "rename"), F,
                                     "rename", newName)


\* ------------------------------------------------------------------------
\* State
\* ------------------------------------------------------------------------

VARIABLES
    bucket,            \* keys of the objects stored in the bucket
    s3ObjectCache,     \* actions/s3-actions.ts: listing cache, key -> result
    s3Objects,         \* S3ObjectState.s3Objects
    path,              \* S3PathState.path
    sourceKey,         \* S3ObjectState.sourceKey
    operationType,     \* S3ObjectState.operationType
    operationMessage,  \* S3ObjectState.operationMessage
    last,              \* the last orchestrator run: name, result, call log
    opCount,           \* orchestrator calls made so far
    faultCount         \* backend calls that have thrown so far

VARIABLES
    now,               \* Date.now(), milliseconds
    ticks,             \* steps the clock has made
    signedUrlCache,    \* lib/s3/s3-commands.ts: signedUrlCache, key -> entry
    lastQuery          \* the last query: name, arguments, result, call log

VARIABLES
    files,             \* useS3UploadOperations: files, the names of the files
    fileStatuses,      \* useS3UploadOperations: fileStatuses
    hook,              \* isSubmitting, currentFileIndex, abortControllerRef
    run,               \* the call of uploadMultipleFiles: position, locals
    requests,          \* network calls issued by the last uploadMultipleFiles
    transfers,         \* results of uploadSingleFile in the last uploadMultipleFiles
    lastStep,          \* the last step of the hook and the statuses before it
    batches,           \* calls of uploadMultipleFiles so far
    submissions,       \* multiple-file-upload-modal.tsx: the calls of handleSubmit
    lastKey,           \* s3-helpers.ts: the last call of a key helper
    navCalls           \* use-s3-navigation.ts: the listing calls in flight

\* The stores of the browser and the bucket
browserVars == <<bucket, s3ObjectCache, s3Objects, path, sourceKey, operationType,
                 operationMessage, last, opCount, faultCount>>

\* The clock and the signed URL cache
queryVars == <<now, ticks, signedUrlCache, lastQuery>>

\* The key helper called last, and the navigation calls in flight
helperVars == <<lastKey, navCalls>>

\* The state of the upload hook
uploadVars == <<files, fileStatuses, hook, run, requests, transfers, lastStep,
                batches, submissions>>

vars == <<bucket, s3ObjectCache, s3Objects, path, sourceKey, operationType,
          operationMessage, last, opCount, faultCount,
          now, ticks, signedUrlCache, lastQuery,
          files, fileStatuses, hook, run, requests, transfers, lastStep,
          batches, submissions, lastKey, navCalls>>

\* The objects of the bucket when the browser is opened: two folders with
\* their markers, holding a file of the same name, and in the second
\* folder a copy of the first folder's file and one more file, so that the
\* second folder holds more objects than one listing response returns.
SeedBucket ==
    { <<"a", "/">>, <<"a", "/", ".", "f">>,
      <<"b", "/">>, <<"b", "/", ".", "f">>, <<"b", "/", "a", "/", ".", "f">>,
      <<"b", "/", "g">> }

\* Names the user types into the create and rename dialogs.
NewNames == {Empty, <<"n">>}

\* The largest number of backend calls of one handler run: a directory
\* move lists, probes and copies every listed object, lists again, deletes
\* every listed object, and the orchestrator re-lists.
MaxCalls == 3 + 4 * MaxKeys

RECURSIVE FaultSetsUpTo(_)
\* The sets of at most k call numbers
FaultSetsUpTo(k) ==
    IF k = 0 THEN {{}}
    ELSE LET P == FaultSetsUpTo(k - 1) IN
         P \cup {f \cup {i} : f \in P, i \in 1..MaxCalls}

\* The fault sets the remaining fault budget allows
FaultSets == FaultSetsUpTo(MaxFaults - faultCount)

\* A navigation handler issues one backend call
NavFaultSets == IF faultCount < MaxFaults THEN {{}, {1}} ELSE {{}}

\* The state a handler starts from
CurrentW ==
    [st |-> NewRun(bucket), s3ObjectCache |-> s3ObjectCache,
     s3Objects |-> s3Objects, path |-> path, sourceKey |-> sourceKey,
     operationType |-> operationType, operationMessage |-> operationMessage]

\* The context and listing a handler started from
Pre ==
    [bucket |-> bucket, s3Objects |-> s3Objects, path |-> path,
     sourceKey |-> sourceKey, operationType |-> operationType,
     operationMessage |-> operationMessage]

NoRun ==
    [op |-> "none", res |-> Success(TRUE), log |-> <<>>, F |-> {}, relists |-> 0,
     dispatch |-> NoDispatch,
     pre |-> [bucket |-> {}, s3Objects |-> <<>>, path |-> Empty,
              sourceKey |-> Null, operationType |-> "null",
              operationMessage |-> "null"]]

OrchestratorOps ==
    {"createS3Directory", "moveS3Object", "copyS3Object", "deleteS3Object",
     "renameS3Object"}

\* The handler run r = [w, res] of handler op has returned: the stores take
\* the values it left.  Every fault of F hit a call of the run.
Returned(op, F, r) ==
    /\ \A i \in F : i <= r.w.st.n
    /\ \A k \in r.w.st.bucket : Len(k) <= MaxKeyLen
    /\ bucket' = r.w.st.bucket
    /\ s3ObjectCache' = r.w.s3ObjectCache
    /\ s3Objects' = r.w.s3Objects
    /\ path' = r.w.path
    /\ sourceKey' = r.w.sourceKey
    /\ operationType' = r.w.operationType
    /\ operationMessage' = r.w.operationMessage
    /\ faultCount' = faultCount + Cardinality(F)
    /\ last' = IF op \in OrchestratorOps
               THEN [op |-> op, res |-> r.res, log |-> r.w.st.log, F |-> F,
                     relists |-> r.w.st.relists, dispatch |-> r.w.st.dispatch,
                     pre |-> Pre]
               ELSE NoRun
    /\ UNCHANGED <<queryVars, helperVars, uploadVars>>

\* useS3UploadOperations, the initial state: currentFileIndex -1, and
\* abortControllerRef.current null (FALSE) or a controller (TRUE)
InitialHook ==
    [isSubmitting |-> FALSE, currentFileIndex |-> -1, abortControllerRef |-> FALSE,
     progress |-> 0, fileNameExist |-> FALSE]

\* No call of uploadMultipleFiles is running
NoUpload ==
    [pc |-> "idle", i |-> 0, overwrite |-> FALSE, files |-> <<>>,
     fileStatuses |-> <<>>, successCount |-> 0, errorCount |-> 0,
     location |-> Empty, aborted |-> FALSE, cancelled |-> FALSE, events |-> 0]

\* No query has been made
\* No key helper was called
NoKey == [fn |-> "none", key |-> Empty, newName |-> Empty, result |-> Empty]

NoQuery ==
    [op |-> "none", key |-> Null, overwrite |-> FALSE, expiresIn |-> {},
     at |-> 0, F |-> {}, throws |-> FALSE, res |-> Success(TRUE), log |-> <<>>,
     signed |-> 0, cached |-> {}]

Init ==
    /\ bucket = SeedBucket
    /\ s3ObjectCache = [k \in {} |-> Success(<<>>)]
    /\ s3Objects = <<>>
    /\ path = Empty
    /\ sourceKey = Null
    /\ operationType = "null"
    /\ operationMessage = "null"
    /\ last = NoRun
    /\ opCount = 0
    /\ faultCount = 0
    /\ now = 0
    /\ ticks = 0
    /\ signedUrlCache = [k \in {} |-> NoQuery]
    /\ lastQuery = NoQuery
    /\ files = <<>>
    /\ fileStatuses = <<>>
    /\ hook = InitialHook
    /\ run = NoUpload
    /\ requests = <<>>
    /\ transfers = <<>>
    /\ lastStep = [name |-> "none", before |-> <<>>]
    /\ batches = 0
    /\ submissions = <<>>
    /\ lastKey = NoKey
    /\ navCalls = <<>>

\* ------------------------------------------------------------------------
\* Navigation and context events of the interface
\* ------------------------------------------------------------------------

\* Keys of the listed objects
ListedKeys == {s3Objects[i].key : i \in 1..Len(s3Objects)}

\* Keys of the listed objects shown as folders (s3-browser.tsx, isFolder)
ListedFolders ==
    {s3Objects[i].key : i \in {j \in 1..Len(s3Objects) :
        s3Objects[j].type = "DIRECTORY" \/ EndsWith(s3Objects[j].key, "/")}}

\* use-s3-navigation.ts, the mount effect: getS3Objects(getPath())
LoadS3Objects ==
    /\ opCount < MaxOps
    /\ \E F \in NavFaultSets :
          Returned("getS3Objects", F, getS3Objects(CurrentW, F, path, FALSE))
    /\ UNCHANGED opCount

\* s3-browser.tsx handleNavigation: updateS3Objects(key) for a listed folder
UpdateS3Objects ==
    /\ opCount < MaxOps
    /\ \E key \in ListedFolders, F \in NavFaultSets :
          Returned("updateS3Objects", F, updateS3Objects(CurrentW, F, key))
    /\ UNCHANGED opCount

\* toParentDirectory()
ToParentDirectory ==
    /\ opCount < MaxOps
    /\ path # Empty
    /\ \E F \in NavFaultSets :
          Returned("toParentDirectory", F, toParentDirectory(CurrentW, F))
    /\ UNCHANGED opCount

\* file-context-menu.tsx handleCopy, handleCut: setSourceKey(s3ObjectKey)
SetSourceKey ==
    /\ opCount < MaxOps
    /\ \E key \in ListedKeys :
          Returned("setSourceKey", {},
                   [w |-> [CurrentW EXCEPT !.sourceKey = key], res |-> Success(TRUE)])
    /\ UNCHANGED opCount

\* file-context-menu.tsx handleCopy, handleCut: setOperationType(type)
SetOperationType ==
    /\ opCount < MaxOps
    /\ \E type \in FileOperationType :
          Returned("setOperationType", {},
                   [w |-> [CurrentW EXCEPT !.operationType = type],
                    res |-> Success(TRUE)])
    /\ UNCHANGED opCount

\* The dialogs set the context for a listed object, the create dialog for
\* the current path.
SetOperationContext ==
    /\ opCount < MaxOps
    /\ \E key \in ListedKeys \cup {path}, type \in FileOperationType :
          Returned("setOperationContext", {},
                   setOperationContext(CurrentW, key, type))
    /\ UNCHANGED opCount

\* A dialog is closed: resetFileOperation()
ResetFileOperation ==
    /\ opCount < MaxOps
    /\ Returned("resetFileOperation", {},
                [w |-> resetFileOperation(CurrentW), res |-> Success(TRUE)])
    /\ UNCHANGED opCount

\* ------------------------------------------------------------------------
\* Orchestrator operations
\* ------------------------------------------------------------------------

CreateS3Directory ==
    /\ opCount < MaxOps
    /\ \E newName \in NewNames, F \in FaultSets :
          Returned("createS3Directory", F, createS3Directory(CurrentW, F, newName))
    /\ opCount' = opCount + 1

MoveS3Object ==
    /\ opCount < MaxOps
    /\ \E F \in FaultSets :
          Returned("moveS3Object", F, moveS3Object(CurrentW, F))
    /\ opCount' = opCount + 1

CopyS3Object ==
    /\ opCount < MaxOps
    /\ \E F \in FaultSets :
          Returned("copyS3Object", F, copyS3Object(CurrentW, F))
    /\ opCount' = opCount + 1

DeleteS3Object ==
    /\ opCount < MaxOps
    /\ \E F \in FaultSets :
          Returned("deleteS3Object", F, deleteS3Object(CurrentW, F))
    /\ opCount' = opCount + 1

RenameS3Object ==
    /\ opCount < MaxOps
    /\ \E newName \in NewNames, F \in FaultSets :
          Returned("renameS3Object", F, renameS3Object(CurrentW, F, newName))
    /\ opCount' = opCount + 1

Next ==
    \/ LoadS3Objects
    \/ UpdateS3Objects
    \/ ToParentDirectory
    \/ SetSourceKey
    \/ SetOperationType
    \/ SetOperationContext
    \/ ResetFileOperation
    \/ CreateS3Directory
    \/ MoveS3Object
    \/ CopyS3Object
    \/ DeleteS3Object
    \/ RenameS3Object

Spec == Init /\ [][Next]_vars

\* ------------------------------------------------------------------------
\* Queries and signed URLs: the server actions called one at a time on the
\* bucket as it is when the browser is opened
\* ------------------------------------------------------------------------

\* Steps of the clock in one behaviour.
MaxTicks == 2

\* Steps of the clock: a millisecond, a millisecond less than a second,
\* a second
ClockSteps == {1, MsPerSecond - 1, MsPerSecond}

\* Keys the queries are called with: a stored file, a stored folder marker,
\* a key that holds no object, and no key
QueryKeys == {<<"a", "/", ".", "f">>, <<"b", "/">>, <<"n">>, Empty}

\* Keys read URLs are requested for
UrlKeys == {<<"a", "/", ".", "f">>, <<"b", "/", ".", "f">>}

\* expiresInSecond: not given, or one second
ExpiresInSeconds == {{}, {1}}

\* The cache entry of a key, {} when there is none
Cached(key) == IF key \in DOMAIN signedUrlCache THEN {signedUrlCache[key]} ELSE {}

\* Date.now() advances
Tick ==
    /\ ticks < MaxTicks
    /\ \E d \in ClockSteps : now' = now + d
    /\ ticks' = ticks + 1
    /\ UNCHANGED <<browserVars, uploadVars, helperVars, signedUrlCache, lastQuery>>

\* checkIfObjectKeyExists(key)
CheckIfObjectKeyExists ==
    /\ \E key \in QueryKeys \ {Empty}, F \in {{}, {1}} :
          Const(checkIfObjectKeyExists(NewRun(bucket), F, key), LAMBDA r :
              lastQuery' = [NoQuery EXCEPT !.op = "checkIfObjectKeyExists",
                                           !.key = key, !.at = now, !.F = F,
                                           !.res = r.res, !.log = r.st.log])
    /\ UNCHANGED <<browserVars, uploadVars, helperVars, now, ticks, signedUrlCache>>

\* getUploadPresignedUrlAction(key, overwrite)
GenerateUploadPresignedUrl ==
    /\ \E key \in QueryKeys, overwrite \in BOOLEAN, F \in {{}, {1}},
          throws \in BOOLEAN :
          Const(generateUploadPresignedUrl(NewRun(bucket), F, throws, now, key,
                                           overwrite), LAMBDA r :
              /\ throws => r.signed = 1
              /\ lastQuery' = [NoQuery EXCEPT !.op = "generateUploadPresignedUrl",
                                              !.key = key, !.overwrite = overwrite,
                                              !.at = now, !.F = F, !.throws = throws,
                                              !.res = r.res, !.log = r.st.log,
                                              !.signed = r.signed])
    /\ UNCHANGED <<browserVars, uploadVars, helperVars, now, ticks, signedUrlCache>>

\* getSignedUrlAction(key, expiresInSeconds)
GetSignedUrlCommand ==
    /\ \E key \in UrlKeys, expiresInSecond \in ExpiresInSeconds, throws \in BOOLEAN :
          Const(getSignedUrlCommand(signedUrlCache, throws, now, key,
                                    expiresInSecond), LAMBDA r :
              /\ throws => r.signed = 1
              /\ signedUrlCache' = r.signedUrlCache
              /\ lastQuery' = [NoQuery EXCEPT !.op = "getSignedUrlCommand",
                                              !.key = key,
                                              !.expiresIn = expiresInSecond,
                                              !.at = now, !.throws = throws,
                                              !.res = r.res, !.signed = r.signed,
                                              !.cached = Cached(key)])
    /\ UNCHANGED <<browserVars, uploadVars, helperVars, now, ticks>>

NextQueries ==
    \/ Tick
    \/ CheckIfObjectKeyExists
    \/ GenerateUploadPresignedUrl
    \/ GetSignedUrlCommand

SpecQueries == Init /\ [][NextQueries]_vars

\* ------------------------------------------------------------------------
\* Upload pipeline (hooks/s3/use-s3-upload-operations.ts)
\*
\* A step of the hook works on u = [fileStatuses, hook, run, requests,
\* transfers].  Indexes count from 0 as in the source.  The call of
\* uploadMultipleFiles advances from one await to the next: run.pc names
\* the call it is waiting for.
\* ------------------------------------------------------------------------

\* Calls of uploadMultipleFiles in one behaviour.
MaxBatches == 2

\* The file lists the user selects: three files, or one file
FileLists == { << <<"n">>, <<"g">>, <<"f">> >>, << <<"g">> >> }

\* updateFileStatus(prevStatuses, index, statusUpdate)
updateFileStatus(prevStatuses, index, statusUpdate) ==
    [prevStatuses EXCEPT ![index + 1] =
        [f \in DOMAIN prevStatuses[index + 1] |->
            IF f \in DOMAIN statusUpdate THEN statusUpdate[f]
            ELSE prevStatuses[index + 1][f]]]

\* handleFiles(newFiles): the statuses of newly selected files
handleFiles(newFiles) ==
    [i \in 1..Len(newFiles) |->
        [file |-> newFiles[i], progress |-> 0, status |-> "pending", error |-> {}]]

\* prepareUpload: the key the file is uploaded to under path p (trim
\* leaves a string without white space as it is)
uploadLocation(p, name) ==
    (IF EndsWith(p, "/") THEN p ELSE p \o Slash) \o name

RECURSIVE uploadLoop(_, _, _)
\* uploadMultipleFiles, the for loop from index i up to its next await: it
\* skips the files that the fileStatuses of the call (run.fileStatuses)
\* hold as completed or cancelled, marks the next file uploading and
\* requests its upload URL; after the last file the finally block starts
\* the refresh of the listing.
uploadLoop(u, p, i) ==
    IF i >= Len(u.run.files)
    THEN [u EXCEPT !.hook.currentFileIndex = -1,
                   !.hook.isSubmitting = FALSE,
                   !.run.pc = "finally"]
    ELSE IF u.run.fileStatuses[i + 1].status \in {"completed", "cancelled"}
    THEN uploadLoop(u, p, i + 1)
    ELSE [u EXCEPT !.hook.currentFileIndex = i,
                   !.fileStatuses = updateFileStatus(@, i, [status |-> "uploading"]),
                   !.run.i = i,
                   !.run.pc = "prepareUpload",
                   !.run.location = uploadLocation(p, u.run.files[i + 1]),
                   !.requests = Append(@, [file |-> i,
                                           call |-> "getUploadPresignedUrlAction",
                                           was |-> u.fileStatuses[i + 1].status])]

\* Variant of uploadResult that leaves the loop at the first failed file
uploadResult_StopsAtFailure(u, p, put, result) ==
    uploadLoop(
        [u EXCEPT
            !.fileStatuses =
                IF ~result.success
                THEN updateFileStatus(@, u.run.i,
                         [status |-> "error",
                          error |-> IF result.message = Undefined THEN {}
                                    ELSE {result.message}])
                ELSE updateFileStatus(@, u.run.i,
                         [progress |-> 100, status |-> "completed"]),
            !.run.errorCount = IF ~result.success THEN @ + 1 ELSE @,
            !.run.successCount = IF result.success THEN @ + 1 ELSE @,
            !.transfers = Append(@, [file |-> u.run.i, put |-> put, res |-> result])],
        p, IF result.success THEN u.run.i + 1 ELSE Len(u.run.files))

\* uploadMultipleFiles, after uploadSingleFile returned result for file
\* run.i: the file becomes error or completed, the count of the outcome
\* grows, and the loop goes on with the next index.  put is the outcome of
\* the transfer: "none", "ok", "error" or "cancelled".
uploadResult(u, p, put, result) ==
    uploadLoop(
        [u EXCEPT
            !.fileStatuses =
                IF ~result.success
                THEN updateFileStatus(@, u.run.i,
                         [status |-> "error",
                          error |-> IF result.message = Undefined THEN {}
                                    ELSE {result.message}])
                ELSE updateFileStatus(@, u.run.i,
                         [progress |-> 100, status |-> "completed"]),
            !.run.errorCount = IF ~result.success THEN @ + 1 ELSE @,
            !.run.successCount = IF result.success THEN @ + 1 ELSE @,
            !.transfers = Append(@, [file |-> u.run.i, put |-> put, res |-> result])],
        p, u.run.i + 1)

\* uploadMultipleFiles(overwrite) up to its first await; fs and statuses
\* are the files and fileStatuses of the render the function was taken
\* from
uploadMultipleFiles(u, p, fs, statuses, overwrite) ==
    IF Len(fs) = 0
    THEN [u EXCEPT !.run = [NoUpload EXCEPT !.pc = "done"],
                   !.requests = <<>>, !.transfers = <<>>]
    ELSE uploadLoop(
             [u EXCEPT !.hook.isSubmitting = TRUE,
                       !.run = [NoUpload EXCEPT !.pc = "prepareUpload",
                                                !.overwrite = overwrite,
                                                !.files = fs,
                                                !.fileStatuses = statuses],
                       !.requests = <<>>, !.transfers = <<>>],
             p, 0)

\* A JavaScript object: its fields and the place it was created at
Object(origin, fields) == [origin |-> origin, fields |-> fields]

\* x === y for two objects: they are the same object
StrictEquals(x, y) == x.origin = y.origin

\* The value of an awaited server action in the browser: the object
\* deserialized from the response, holding the fields of the result
ServerActionReturn(result) == Object("response", result)

\* S3Responses.FileNameExists, the object of the browser's module
S3ResponsesFileNameExists == Object("S3Responses", FileNameExists)

\* prepareUpload and uploadSingleFile after getUploadPresignedUrlAction
\* returned response: a failure sets fileNameExist, is converted and
\* returned, otherwise the abort controller is created and axios.put is
\* issued
prepareUploadReturned(u, p, response) ==
    IF ~response.success \/ response.data = {}
    THEN uploadResult(
             [u EXCEPT !.hook.fileNameExist =
                           StrictEquals(ServerActionReturn(response),
                                        S3ResponsesFileNameExists)],
             p, "none", ConvertFailure(ConvertFailure(response)))
    ELSE [u EXCEPT !.hook.abortControllerRef = TRUE,
                   !.run.aborted = FALSE,
                   !.run.pc = "performUpload",
                   !.requests = Append(@, [file |-> u.run.i, call |-> "axios.put",
                                           was |-> u.requests[Len(u.requests)].was])]

\* uploadSingleFile when getUploadPresignedUrlAction rejects: the catch
\* block returns the failure
prepareUploadRejected(u, p) ==
    uploadResult(u, p, "none", Failure("Upload error: Network Error", Undefined))

\* performUpload and uploadSingleFile after axios.put settled with put
\* ("ok", "error", "cancelled"): the finally block clears
\* abortControllerRef; a transfer that did not succeed makes
\* uploadSingleFile return Failure('Upload failed')
performUploadReturned(u, p, put) ==
    IF put = "ok"
    THEN [u EXCEPT !.hook.abortControllerRef = FALSE,
                   !.hook.fileNameExist = FALSE,
                   !.hook.progress = 0,
                   !.run.pc = "updateS3Objects"]
    ELSE uploadResult([u EXCEPT !.hook.abortControllerRef = FALSE,
                                !.hook.fileNameExist = FALSE], p, put,
                      Failure("Upload failed", Undefined))

\* cancelUpload(): aborts the controller abortControllerRef holds
cancelUpload(u) ==
    IF u.hook.abortControllerRef
    THEN [u EXCEPT !.run.aborted = TRUE, !.hook.progress = 0]
    ELSE u

\* Variant of cancelAllUploads that marks every file cancelled
cancelAllUploads_MarksEveryFile(u) ==
    [cancelUpload(u) EXCEPT
        !.fileStatuses =
            [i \in DOMAIN u.fileStatuses |->
                [u.fileStatuses[i] EXCEPT !.status = "cancelled"]],
        !.hook.currentFileIndex = -1]

\* cancelAllUploads()
cancelAllUploads(u) ==
    [cancelUpload(u) EXCEPT
        !.fileStatuses =
            [i \in DOMAIN u.fileStatuses |->
                IF u.fileStatuses[i].status \in {"uploading", "pending"}
                THEN [u.fileStatuses[i] EXCEPT !.status = "cancelled"]
                ELSE u.fileStatuses[i]],
        !.hook.currentFileIndex = -1]

\* The state of the hook
Upload ==
    [fileStatuses |-> fileStatuses, hook |-> hook, run |-> run,
     requests |-> requests, transfers |-> transfers]

\* A call of uploadMultipleFiles is between its first await and its return
Running == run.pc \notin {"idle", "done"}

\* The effect that follows a render in which progress, currentFileIndex
\* or fileStatuses.length changed: progress is copied into the status of
\* the current file.  prev is the state of the render before.
progressSync(prev, u) ==
    IF /\ \/ u.hook.progress # prev.hook.progress
          \/ u.hook.currentFileIndex # prev.hook.currentFileIndex
          \/ Len(u.fileStatuses) # Len(prev.fileStatuses)
       /\ u.hook.currentFileIndex >= 0
       /\ u.hook.currentFileIndex < Len(u.fileStatuses)
    THEN [u EXCEPT !.fileStatuses =
             updateFileStatus(@, u.hook.currentFileIndex,
                              [progress |-> u.hook.progress])]
    ELSE u

\* The step name of the hook left it in state u, and the render ran its
\* effect
Stepped(name, u) ==
    /\ fileStatuses' = progressSync(Upload, u).fileStatuses
    /\ hook' = u.hook
    /\ run' = u.run
    /\ requests' = u.requests
    /\ transfers' = u.transfers
    /\ lastStep' = [name |-> name, before |-> fileStatuses]
    /\ UNCHANGED submissions

\* updateS3Objects(getPath()) returned r, its calls of F having thrown
Refreshed(F, r) ==
    /\ s3ObjectCache' = r.w.s3ObjectCache
    /\ s3Objects' = r.w.s3Objects
    /\ path' = r.w.path
    /\ faultCount' = faultCount + Cardinality(F)
    /\ UNCHANGED <<bucket, sourceKey, operationType, operationMessage, last,
                   opCount>>

\* setFiles(newFiles): the user selects files
HandleFiles ==
    /\ ~Running
    /\ \A k \in 1..Len(submissions) : submissions[k].pc = "done"
    /\ \E newFiles \in FileLists :
          /\ files' = newFiles
          /\ fileStatuses' = handleFiles(newFiles)
    /\ lastStep' = [name |-> "setFiles", before |-> fileStatuses]
    /\ UNCHANGED <<browserVars, queryVars, helperVars, hook, run, requests, transfers, batches,
                   submissions>>

\* uploadMultipleFiles(overwrite) is called
UploadMultipleFiles ==
    /\ ~Running
    /\ batches < MaxBatches
    /\ batches' = batches + 1
    /\ \E overwrite \in BOOLEAN :
          Stepped("uploadMultipleFiles",
                  uploadMultipleFiles(Upload, path, files, fileStatuses, overwrite))
    /\ UNCHANGED <<browserVars, queryVars, helperVars, files>>

\* getUploadPresignedUrlAction(location, overwrite) settles
PrepareUploadReturns ==
    /\ run.pc = "prepareUpload"
    /\ \E F \in {{}, {1}}, throws \in BOOLEAN, rejects \in BOOLEAN :
          /\ rejects => F = {} /\ ~throws
          /\ Const(generateUploadPresignedUrl(NewRun(bucket), F, throws, now,
                                              run.location, run.overwrite),
                   LAMBDA r :
                /\ throws => r.signed = 1
                /\ Stepped("prepareUpload",
                           IF rejects THEN prepareUploadRejected(Upload, path)
                           ELSE prepareUploadReturned(Upload, path, r.res)))
    /\ UNCHANGED <<browserVars, queryVars, helperVars, files, batches>>

\* axios.put(signedUrl, file) settles: the object is stored, the transfer
\* fails, or the aborted transfer is cancelled
PerformUploadReturns ==
    /\ run.pc = "performUpload"
    /\ \E put \in {"ok", "error", "cancelled"} :
          /\ run.aborted <=> put = "cancelled"
          /\ bucket' = IF put = "ok" THEN bucket \cup {run.location} ELSE bucket
          /\ Stepped("performUpload", performUploadReturned(Upload, path, put))
    /\ UNCHANGED <<s3ObjectCache, s3Objects, path, sourceKey, operationType,
                   operationMessage, last, opCount, faultCount>>
    /\ UNCHANGED <<queryVars, helperVars, files, batches>>

\* uploadSingleFile: updateS3Objects(getPath()) after a transfer settles,
\* and the file is completed
UpdateS3ObjectsReturns ==
    /\ run.pc = "updateS3Objects"
    /\ \E F \in NavFaultSets :
          Const(updateS3Objects(CurrentW, F, path), LAMBDA r :
              /\ Refreshed(F, r)
              /\ Stepped("uploadSingleFile",
                         uploadResult(Upload, r.w.path, "ok", Success(TRUE))))
    /\ UNCHANGED <<queryVars, helperVars, files, batches>>

\* uploadMultipleFiles, the finally block: updateS3Objects(getPath())
\* settles and the counts are returned
UploadMultipleFilesReturns ==
    /\ run.pc = "finally"
    /\ \E F \in NavFaultSets :
          Const(updateS3Objects(CurrentW, F, path), LAMBDA r : Refreshed(F, r))
    /\ Stepped("uploadMultipleFiles returns", [Upload EXCEPT !.run.pc = "done"])
    /\ UNCHANGED <<queryVars, helperVars, files, batches>>

\* cancelUpload() is called
CancelUpload ==
    /\ Stepped("cancelUpload",
               [cancelUpload(Upload) EXCEPT !.run.cancelled = @ \/ Running])
    /\ UNCHANGED <<browserVars, queryVars, helperVars, files, batches>>

\* cancelAllUploads() is called
CancelAllUploads ==
    /\ Stepped("cancelAllUploads",
               [cancelAllUploads(Upload) EXCEPT !.run.cancelled = @ \/ Running])
    /\ UNCHANGED <<browserVars, queryVars, helperVars, files, batches>>

NextUpload ==
    \/ HandleFiles
    \/ UploadMultipleFiles
    \/ PrepareUploadReturns
    \/ PerformUploadReturns
    \/ UpdateS3ObjectsReturns
    \/ UploadMultipleFilesReturns
    \/ CancelUpload
    \/ CancelAllUploads

SpecUpload == Init /\ [][NextUpload]_vars

----------------------------------------------------------------------------
\* The upload modal: handleSubmit awaits validateFiles and then
\* uploadMultipleFiles, each call with the state of the render it was made
\* in.  submissions[k] is the k-th call of handleSubmit.

MaxSubmissions == 2
FileSize == 2
MaxProgressEvents == 1

\* The progress events of a transfer of FileSize bytes: loaded bytes, and
\* the total, which is missing when the length is not computable
ProgressEvents ==
    {[loaded |-> l, total |-> t] : l \in 0..FileSize, t \in {{}, {FileSize}}}
        \cup {[loaded |-> 0, total |-> {0}]}

\* Math.round(x / y * 100) for x >= 0 and y > 0
RoundPercent(x, y) == (200 * x + y) \div (2 * y)

\* onUploadProgress: total = progressEvent.total || 1, and the rounded
\* percentage of loaded
percentComplete(progressEvent) ==
    RoundPercent(progressEvent.loaded,
                 IF progressEvent.total = {} \/ progressEvent.total = {0} THEN 1
                 ELSE CHOOSE t \in progressEvent.total : TRUE)

\* The file lists the user selects in the modal
SelectedFileLists == { << <<"g">>, <<"f">> >> }

\* handleFileChange: the user selects files in the file input, which is
\* disabled while isSubmitting or a file is uploading; the selections
\* explored are those made while no call of handleSubmit is pending
HandleFileChange ==
    /\ ~hook.isSubmitting
    /\ \A i \in 1..Len(fileStatuses) : fileStatuses[i].status # "uploading"
    /\ \A k \in 1..Len(submissions) : submissions[k].pc = "done"
    /\ \E newFiles \in SelectedFileLists :
          /\ files' = newFiles
          /\ fileStatuses' = handleFiles(newFiles)
    /\ UNCHANGED <<browserVars, queryVars, helperVars, hook, run, requests, transfers,
                   lastStep, batches, submissions>>

\* The hook as the k-th call of handleSubmit sees it
Submitted(k) ==
    [fileStatuses |-> fileStatuses, hook |-> hook, run |-> submissions[k],
     requests |-> requests, transfers |-> transfers]

\* The step name of the k-th call left the hook in state u, and the
\* render ran its effect
SubmittedStepped(k, name, u) ==
    /\ fileStatuses' = progressSync(Submitted(k), u).fileStatuses
    /\ hook' = u.hook
    /\ submissions' = [submissions EXCEPT ![k] = u.run]
    /\ requests' = u.requests
    /\ transfers' = u.transfers
    /\ UNCHANGED <<run, batches, files, lastStep, queryVars, helperVars>>

\* A file of the rendered list is uploading
anyUploading == \E i \in 1..Len(fileStatuses) : fileStatuses[i].status = "uploading"

\* The submit button is disabled
isDisabled == Len(files) = 0 \/ hook.isSubmitting

\* handleSubmit is called from the rendered form: it returns if the
\* render's isSubmitting is set, and otherwise awaits validateFiles()
HandleSubmit ==
    /\ Len(submissions) < MaxSubmissions
    /\ ~anyUploading
    /\ ~isDisabled
    /\ \E overwriteExisting \in BOOLEAN :
          submissions' = Append(submissions,
              [NoUpload EXCEPT !.pc = "validateFiles",
                               !.overwrite = overwriteExisting,
                               !.files = files,
                               !.fileStatuses = fileStatuses])
    /\ UNCHANGED <<browserVars, queryVars, helperVars, files, fileStatuses, hook, run,
                   requests, transfers, lastStep, batches>>

\* validateFiles() settles: s3UploadLimit() returned, and either a file
\* exceeds the limit or uploadMultipleFiles(overwriteExisting) is called
ValidateFilesReturns ==
    \E k \in 1..Len(submissions) :
        /\ submissions[k].pc = "validateFiles"
        /\ \E oversized \in BOOLEAN :
              SubmittedStepped(k, "validateFiles",
                  IF oversized
                  THEN [Submitted(k) EXCEPT !.run.pc = "done"]
                  ELSE uploadMultipleFiles(Submitted(k), path,
                                           submissions[k].files,
                                           submissions[k].fileStatuses,
                                           submissions[k].overwrite))
        /\ UNCHANGED browserVars

\* getUploadPresignedUrlAction(location, overwrite) of the k-th call
\* settles
SubmittedPrepareUploadReturns ==
    \E k \in 1..Len(submissions) :
        /\ submissions[k].pc = "prepareUpload"
        /\ \E F \in NavFaultSets :
              /\ Const(generateUploadPresignedUrl(NewRun(bucket), F, FALSE, now,
                                                  submissions[k].location,
                                                  submissions[k].overwrite),
                       LAMBDA r :
                    SubmittedStepped(k, "prepareUpload",
                        prepareUploadReturned(Submitted(k), path, r.res)))
              /\ faultCount' = faultCount + Cardinality(F)
        /\ UNCHANGED <<bucket, s3ObjectCache, s3Objects, path, sourceKey,
                       operationType, operationMessage, last, opCount>>

\* axios.put of the k-th call reports progress
ProgressEvent ==
    \E k \in 1..Len(submissions) :
        /\ submissions[k].pc = "performUpload"
        /\ submissions[k].events < MaxProgressEvents
        /\ \E progressEvent \in ProgressEvents :
              SubmittedStepped(k, "onUploadProgress",
                  [Submitted(k) EXCEPT
                      !.hook.progress = percentComplete(progressEvent),
                      !.run.events = @ + 1])
        /\ UNCHANGED browserVars

\* axios.put of the k-th call settles
SubmittedPerformUploadReturns ==
    \E k \in 1..Len(submissions) :
        /\ submissions[k].pc = "performUpload"
        /\ \E put \in {"ok", "error"} :
              /\ put = "error" => faultCount < MaxFaults
              /\ faultCount' = IF put = "error" THEN faultCount + 1 ELSE faultCount
              /\ bucket' = IF put = "ok" THEN bucket \cup {submissions[k].location}
                           ELSE bucket
              /\ SubmittedStepped(k, "performUpload",
                                  performUploadReturned(Submitted(k), path, put))
        /\ UNCHANGED <<s3ObjectCache, s3Objects, path, sourceKey, operationType,
                       operationMessage, last, opCount>>

\* uploadSingleFile of the k-th call: updateS3Objects(getPath()) settles
\* and the file is completed
SubmittedUpdateS3ObjectsReturns ==
    \E k \in 1..Len(submissions) :
        /\ submissions[k].pc = "updateS3Objects"
        /\ \E F \in NavFaultSets :
              Const(updateS3Objects(CurrentW, F, path), LAMBDA r :
                  /\ Refreshed(F, r)
                  /\ SubmittedStepped(k, "uploadSingleFile",
                         uploadResult(Submitted(k), r.w.path, "ok", Success(TRUE))))

\* uploadMultipleFiles of the k-th call, the finally block:
\* updateS3Objects(getPath()) settles, and handleSubmit shows the counts
HandleSubmitReturns ==
    \E k \in 1..Len(submissions) :
        /\ submissions[k].pc = "finally"
        /\ \E F \in NavFaultSets :
              Const(updateS3Objects(CurrentW, F, path), LAMBDA r : Refreshed(F, r))
        /\ SubmittedStepped(k, "handleSubmit returns",
                            [Submitted(k) EXCEPT !.run.pc = "done"])

NextSubmit ==
    \/ HandleFileChange
    \/ HandleSubmit
    \/ ValidateFilesReturns
    \/ SubmittedPrepareUploadReturns
    \/ ProgressEvent
    \/ SubmittedPerformUploadReturns
    \/ SubmittedUpdateS3ObjectsReturns
    \/ HandleSubmitReturns

SpecSubmit == Init /\ [][NextSubmit]_vars

----------------------------------------------------------------------------
\* The key helpers of s3-helpers.ts, called on any key

MaxHelperKeyLen == 4

\* The characters of the keys the helpers are called with
KeyChar == {"/", "a", "b"}

\* The keys of at most MaxHelperKeyLen characters
HelperKeys == UNION {[1..n -> KeyChar] : n \in 0..MaxHelperKeyLen}

\* renameDestinationKey(destinationKey, newName) is called
RenameDestinationKey ==
    /\ \E destinationKey \in HelperKeys, newName \in NewNames \ {Empty} :
          lastKey' = [fn |-> "renameDestinationKey", key |-> destinationKey,
                      newName |-> newName,
                      result |-> renameDestinationKey(destinationKey, newName)]
    /\ UNCHANGED <<browserVars, queryVars, uploadVars, navCalls>>

NextKeys == RenameDestinationKey

SpecKeys == Init /\ [][NextKeys]_vars

----------------------------------------------------------------------------
\* Navigation with the listing requests in flight: a call of the hook runs
\* up to its await of getObjectsAction, and goes on when the request
\* settles.  navCalls holds the calls made: the function, the key listed,
\* whether setPath('') follows the await, and the outcome ("pending" while
\* the request is in flight).

MaxNavCalls == 3

\* A call of the hook that listed key
NavCall(fn, key, root, out) == [fn |-> fn, key |-> key, root |-> root, out |-> out]

\* The outcome of a listing that settled with result res
NavOutcome(res) == IF res.success THEN "ok" ELSE "error"

\* getObjectsAction answers from s3ObjectCache without a request
ListingCached(key) == key \in DOMAIN s3ObjectCache

\* toParentDirectory: the key it lists for the current path p, and whether
\* it is the branch that lists '' and then calls setPath('')
parentLocation(p) ==
    Const(IF EndsWith(p, "/") THEN SubSeq(p, 1, Len(p) - 1) ELSE p,
          LAMBDA trimmedPath :
    Const(LastIndexOf(trimmedPath, "/") - 1, LAMBDA lastSlashIndex :
    IF lastSlashIndex <= 0
    THEN [key |-> Empty, root |-> TRUE]
    ELSE [key |-> SubSeq(trimmedPath, 1, lastSlashIndex) \o Slash, root |-> FALSE]))

\* The navigation state becomes that of w, and the call c is recorded
Navigated(w, c) ==
    /\ s3ObjectCache' = w.s3ObjectCache
    /\ s3Objects' = w.s3Objects
    /\ path' = w.path
    /\ navCalls' = Append(navCalls, c)
    /\ UNCHANGED <<bucket, sourceKey, operationType, operationMessage, last,
                   opCount, faultCount, queryVars, uploadVars, lastKey>>

\* getS3Objects(getPath()) is called (the mount effect): a cached listing
\* is stored at once, otherwise the request is in flight
GetS3ObjectsCalled ==
    /\ Len(navCalls) < MaxNavCalls
    /\ IF ListingCached(path)
       THEN Const(getS3Objects(CurrentW, {}, path, FALSE), LAMBDA r :
                Navigated(r.w, NavCall("getS3Objects", path, FALSE,
                                       NavOutcome(r.res))))
       ELSE Navigated(CurrentW, NavCall("getS3Objects", path, FALSE, "pending"))

\* updateS3Objects(key) is called for a listed folder: setPath(key), and
\* the request of getS3Objects(key, true) is in flight
UpdateS3ObjectsCalled ==
    /\ Len(navCalls) < MaxNavCalls
    /\ \E key \in ListedFolders :
          Navigated([CurrentW EXCEPT !.path = setPath(key)],
                    NavCall("updateS3Objects", key, FALSE, "pending"))

\* toParentDirectory() is called below the root
ToParentDirectoryCalled ==
    /\ Len(navCalls) < MaxNavCalls
    /\ path # Empty /\ path # Slash
    /\ Const(parentLocation(path), LAMBDA parent :
          IF ListingCached(parent.key)
          THEN Const(getS3Objects(CurrentW, {}, parent.key, FALSE), LAMBDA r :
                   Navigated(IF parent.root
                             THEN [r.w EXCEPT !.path = setPath(Empty)] ELSE r.w,
                             NavCall("toParentDirectory", parent.key, parent.root,
                                     NavOutcome(r.res))))
          ELSE Navigated(CurrentW,
                         NavCall("toParentDirectory", parent.key, parent.root,
                                 "pending")))

\* The request of a call in flight settles, in any order: the result is
\* cached, getS3Objects stores the listing and the path if it succeeded,
\* and toParentDirectory then calls setPath('') in its root branch
GetObjectsActionReturns ==
    \E i \in 1..Len(navCalls), F \in NavFaultSets :
        /\ navCalls[i].out = "pending"
        /\ Const(getS3Objects(CurrentW, F, navCalls[i].key, TRUE), LAMBDA r :
              /\ s3ObjectCache' = r.w.s3ObjectCache
              /\ s3Objects' = r.w.s3Objects
              /\ path' = IF navCalls[i].root THEN setPath(Empty) ELSE r.w.path
              /\ navCalls' = [navCalls EXCEPT ![i].out = NavOutcome(r.res)])
        /\ faultCount' = faultCount + Cardinality(F)
        /\ UNCHANGED <<bucket, sourceKey, operationType, operationMessage, last,
                       opCount, queryVars, uploadVars, lastKey>>

NextNav ==
    \/ GetS3ObjectsCalled
    \/ UpdateS3ObjectsCalled
    \/ ToParentDirectoryCalled
    \/ GetObjectsActionReturns

SpecNav == Init /\ [][NextNav]_vars

\* The transfers in flight: the calls of handleSubmit that await axios.put
InFlight == {k \in 1..Len(submissions) : submissions[k].pc = "performUpload"}



\* ------------------------------------------------------------------------
\* Properties of the orchestrator runs
\* ------------------------------------------------------------------------

\* The operation type each orchestrator operation expects
ExpectedType(op) ==
    CASE op = "createS3Directory" -> "create"
      [] op = "moveS3Object" -> "move"
      [] op = "copyS3Object" -> "copy"
      [] op = "deleteS3Object" -> "delete"
      [] op = "renameS3Object" -> "rename"
      [] OTHER -> "null"

OrchestratorReturned == last.op \in OrchestratorOps

\* Positions of the calls of one command in the log of the last run
CallsOf(call) == {i \in 1..Len(last.log) : last.log[i].call = call}

\* The one-level listing of the current path the backend gives now
BackendListing ==
    ListObjectsV2CommandOutputToS3Object(ListObjectsV2(bucket, path, TRUE, Null))

\* C1: when a mutation dispatched by the orchestrator succeeds (and no
\* backend call of the run threw), the object list in local state equals
\* the backend's one-level listing of the current path taken after the
\* mutation.
C1_ListIsBackendListingAfterMutation ==
    (OrchestratorReturned /\ last.res.success /\ last.F = {})
        => s3Objects = BackendListing

C3_FailureLeavesContext ==
    (OrchestratorReturned /\ ~last.res.success)
        => /\ sourceKey = last.pre.sourceKey
           /\ operationType = last.pre.operationType
           /\ last.relists = 0
           /\ s3Objects = last.pre.s3Objects

\* C3 witness: a move whose copy succeeded and whose delete failed returned
\* the failure of the storage mutation.
C3_Witness ==
    /\ last.op = "moveS3Object"
    /\ ~last.res.success
    /\ \E i \in CallsOf("DeleteObject") : last.log[i].out = "error"
    /\ sourceKey # Null

\* C4: whenever an orchestrator operation has returned, with success or
\* with failure, operationMessage is null.
C4_MessageClearedOnCompletion ==
    OrchestratorReturned => operationMessage = "null"


\* ------------------------------------------------------------------------
\* Properties of the storage mutations, read off the call log of the run
\* ------------------------------------------------------------------------

\* The last run dispatched the command of operationType t for a file
FileRun(t) ==
    /\ OrchestratorReturned
    /\ last.dispatch.operationType = t
    /\ last.dispatch.objectType = "FILE"

\* The last run dispatched the command of operationType t for a directory
DirectoryRun(t) ==
    /\ OrchestratorReturned
    /\ last.dispatch.operationType = t
    /\ last.dispatch.objectType = "DIRECTORY"

\* The objects the directory command listed: the first call of a directory
\* command is the listing of the source prefix
ListedObjects ==
    IF Len(last.log) > 0 /\ last.log[1].call = "ListObjectsV2"
          /\ last.log[1].out = "ok"
    THEN ListObjectsV2(last.pre.bucket, last.log[1].key, FALSE, Null).Contents
    ELSE <<>>

\* The destination key of the j-th listed object
ListedDestination(j) ==
    transformS3DirectoryKeys(ListedObjects[j], last.dispatch.destination)

\* C5: copyS3ObjectCommand called with a destination key at which an object
\* exists (the existence probe answers) returns DestinationKeyExist and
\* issues no backend copy call: the run is the one probe.  In every run a
\* CopyObject call directly follows the probe of its destination key, and
\* that probe did not answer that the key exists.
C5_CopyToExistingKeyRefused ==
    /\ (FileRun("copy") /\ last.log[1].call = "HeadObject"
            /\ last.log[1].present /\ 1 \notin last.F)
          => /\ last.res = DestinationKeyExist
             /\ Len(last.log) = 1
             /\ bucket = last.pre.bucket
    /\ \A i \in CallsOf("CopyObject") :
          /\ i > 1
          /\ last.log[i - 1].call = "HeadObject"
          /\ last.log[i - 1].key = last.log[i].key
          /\ last.log[i - 1].out # "ok"

\* C5 witness: a file was pasted where a file of its name is stored.
C5_Witness ==
    /\ FileRun("copy")
    /\ last.log[1].call = "HeadObject"
    /\ last.log[1].out = "ok"
    /\ last.res = DestinationKeyExist

\* C6: in every execution, including one in which the existence probe
\* itself fails, a backend copy call is issued only when no object is
\* stored at its destination key.
C6_CopyNeverOverwrites ==
    \A i \in CallsOf("CopyObject") : ~last.log[i].present

C8_DirectoryCopyAbortsOnFailure ==
    DirectoryRun("copy") =>
        \A i \in CallsOf("CopyObject") :
            last.log[i].out = "error"
                => /\ ~last.res.success
                   /\ \A k \in CallsOf("CopyObject") : k <= i

\* C9: deleteS3DirectoryCommand: when the backend delete of one listed
\* object fails, the result is a failure, the objects before it in listing
\* order are deleted and no delete is issued for the objects after it.
C9_DirectoryDeleteAbortsOnFailure ==
    DirectoryRun("delete") =>
        \A i \in CallsOf("DeleteObject") :
            last.log[i].out = "error"
                => /\ ~last.res.success
                   /\ \A k \in CallsOf("DeleteObject") :
                         /\ k <= i
                         /\ k < i => last.log[k].key \notin bucket

\* C10: moveS3DirectoryCommand (and renameS3DirectoryCommand): a delete of
\* a source object is issued only after every listed object of the source
\* has been copied to its destination key; if the copy of one failed, no
\* source object is deleted.
C10_DirectoryMoveDeletesAfterFullCopy ==
    \A t \in {"move", "rename"} :
        DirectoryRun(t) =>
            \A d \in CallsOf("DeleteObject") :
                \A j \in 1..Len(ListedObjects) :
                    \E c \in CallsOf("CopyObject") :
                        /\ c < d
                        /\ last.log[c].src = ListedObjects[j]
                        /\ last.log[c].key = ListedDestination(j)
                        /\ last.log[c].out = "ok"


\* ------------------------------------------------------------------------
\* Properties of the storage queries
\* ------------------------------------------------------------------------

\* The stored keys under the prefix of the directory the last run worked on
Descendants(b) == {k \in b : IsPrefix(last.dispatch.sourceKey, k)}

\* C11: the lister of the directory commands follows the continuation
\* tokens: after a successful directory delete or move no object is left
\* under the source prefix, and after a successful directory copy, move or
\* rename every object that was stored under the source prefix is stored at
\* its destination key.
C11_DirectoryCommandsProcessEveryDescendant ==
    /\ \A t \in {"delete", "move", "rename"} :
          (DirectoryRun(t) /\ last.res.success /\ last.F = {})
              => \A k \in Descendants(last.pre.bucket) : k \notin bucket
    /\ \A t \in {"copy", "move", "rename"} :
          (DirectoryRun(t) /\ last.res.success /\ last.F = {})
              => \A k \in Descendants(last.pre.bucket) :
                    transformS3DirectoryKeys(k, last.dispatch.destination) \in bucket


\* C12: checkIfObjectKeyExists on a key that holds no object returns
\* Success(false), on a key that holds an object Success(true), and a
\* failure exactly when the backend throws an error other than not-found.
C12_ExistsByKeyResult ==
    lastQuery.op = "checkIfObjectKeyExists" =>
        /\ (lastQuery.F = {} /\ lastQuery.key \notin bucket)
              => lastQuery.res = Success(FALSE)
        /\ (lastQuery.F = {} /\ lastQuery.key \in bucket)
              => lastQuery.res = Success(TRUE)
        /\ ~lastQuery.res.success <=> lastQuery.F # {}
        /\ Len(lastQuery.log) = 1 /\ lastQuery.log[1].call = "HeadObject"

\* C12 witness: the probe of a key that holds no object answered
C12_Witness ==
    /\ lastQuery.op = "checkIfObjectKeyExists"
    /\ lastQuery.key \notin bucket
    /\ lastQuery.log[1].out = "NotFound"
    /\ lastQuery.res = Success(FALSE)

\* The key generateUploadPresignedUrl signs for
UploadKey == IF lastQuery.key = Empty THEN Slash ELSE lastQuery.key

\* C13: generateUploadPresignedUrl for a key that holds an object, with
\* overwrite=false, returns FileNameExists and requests no signed URL; a
\* signed URL is returned only when overwrite=true or the key holds no
\* object.
C13_UploadUrlChecksExistence ==
    lastQuery.op = "generateUploadPresignedUrl" =>
        /\ (UploadKey \in bucket /\ ~lastQuery.overwrite)
              => lastQuery.res = FileNameExists /\ lastQuery.signed = 0
        /\ lastQuery.res.success
              => lastQuery.overwrite \/ UploadKey \notin bucket

\* expiresInSecond ?? s3SignedUrlExpires of the last query
RequestedExpiry ==
    IF lastQuery.expiresIn = {} THEN s3SignedUrlExpires
    ELSE CHOOSE e \in lastQuery.expiresIn : TRUE

C15_CachedUrlOutlivesRequest ==
    (lastQuery.op = "getSignedUrlCommand" /\ lastQuery.signed = 0)
        => \A url \in lastQuery.res.data :
              ValidUntil(url) - lastQuery.at > RequestedExpiry * MsPerSecond

\* ------------------------------------------------------------------------
\* Properties of the upload pipeline
\* ------------------------------------------------------------------------

\* Statuses a file does not leave
Terminal == {"completed", "error", "cancelled"}

\* The last step was a step of the pipeline on the selected files
PipelineStepped == lastStep.name \notin {"none", "setFiles"}

\* Indexes (from 0) of the files the last uploadMultipleFiles has handled
Handled == {transfers[k].file : k \in 1..Len(transfers)}

\* C16: under any interleaving of uploadMultipleFiles, cancelUpload and
\* cancelAllUploads a file's status moves only from pending to uploading
\* (or cancelled) and from uploading to completed, error or cancelled:
\* no step of the pipeline changes a status that is completed, error or
\* cancelled.
C16_TerminalStatusNeverChanges ==
    PipelineStepped =>
        \A i \in DOMAIN lastStep.before :
            /\ lastStep.before[i].status \in Terminal
                  => fileStatuses[i].status = lastStep.before[i].status
            /\ lastStep.before[i].status = "pending"
                  => fileStatuses[i].status \in {"pending", "uploading", "cancelled"}
            /\ lastStep.before[i].status = "uploading"
                  => fileStatuses[i].status \in {"uploading"} \cup Terminal

\* C17: cancelAllUploads makes every pending or uploading file cancelled
\* and leaves the status of every completed, error or cancelled file as
\* it was.
C17_CancelAllMarksUnfinished ==
    lastStep.name = "cancelAllUploads" =>
        /\ Len(fileStatuses) = Len(lastStep.before)
        /\ \A i \in DOMAIN lastStep.before :
              fileStatuses[i] =
                  IF lastStep.before[i].status \in {"pending", "uploading"}
                  THEN [lastStep.before[i] EXCEPT !.status = "cancelled"]
                  ELSE lastStep.before[i]

\* C17 witness: cancelAllUploads was called while file #1 was completed,
\* file #2 uploading and file #3 pending, and left them completed,
\* cancelled and cancelled
C17_Witness ==
    /\ lastStep.name = "cancelAllUploads"
    /\ Len(lastStep.before) = 3
    /\ lastStep.before[1].status = "completed"
    /\ lastStep.before[2].status = "uploading"
    /\ lastStep.before[3].status = "pending"
    /\ fileStatuses[1].status = "completed"
    /\ fileStatuses[2].status = "cancelled"
    /\ fileStatuses[3].status = "cancelled"

\* C18: uploadMultipleFiles issues no network call (upload URL request or
\* transfer) for a file that cancelAllUploads has marked cancelled before
\* the loop reached its index.
C18_NoRequestForCancelledFiles ==
    \A k \in 1..Len(requests) : requests[k].was # "cancelled"

\* C19: a file whose transfer was aborted is reported apart from a
\* transport failure: its result is not that of a failed transfer, its
\* status is cancelled and errorCount does not count it.
C19_AbortedTransferIsCancelled ==
    (Running \/ lastStep.name = "uploadMultipleFiles returns") =>
        /\ \A k \in 1..Len(transfers) :
              transfers[k].put = "cancelled" =>
                  /\ transfers[k].res # Failure("Upload failed", Undefined)
                  /\ fileStatuses[transfers[k].file + 1].status = "cancelled"
        /\ run.errorCount =
              Cardinality({k \in 1..Len(transfers) :
                              /\ ~transfers[k].res.success
                              /\ transfers[k].put # "cancelled"})

\* C20: when uploadMultipleFiles returns and no cancel was called during
\* it, every file that was not completed or cancelled at the call has been
\* handled once, files after a failed one included; successCount and
\* errorCount are the numbers of handled files that are completed and
\* error; and every failed file is error with the message of its failure.
C20_BatchCountsOutcomes ==
    (lastStep.name = "uploadMultipleFiles returns" /\ ~run.cancelled) =>
        /\ Handled = {i \in 0..(Len(run.files) - 1) :
                         run.fileStatuses[i + 1].status \notin {"completed", "cancelled"}}
        /\ Len(transfers) = Cardinality(Handled)
        /\ run.successCount =
              Cardinality({i \in Handled : fileStatuses[i + 1].status = "completed"})
        /\ run.errorCount =
              Cardinality({i \in Handled : fileStatuses[i + 1].status = "error"})
        /\ \A k \in 1..Len(transfers) :
              IF transfers[k].res.success
              THEN fileStatuses[transfers[k].file + 1].status = "completed"
              ELSE /\ fileStatuses[transfers[k].file + 1].status = "error"
                   /\ transfers[k].res.message # Undefined
                   /\ fileStatuses[transfers[k].file + 1].error
                          = {transfers[k].res.message}

\* C20 witness: uploadMultipleFiles returned for three files of which only
\* file #2 failed, with successCount 2 and errorCount 1
C20_Witness ==
    /\ lastStep.name = "uploadMultipleFiles returns"
    /\ ~run.cancelled
    /\ Len(transfers) = 3
    /\ transfers[1].res.success /\ ~transfers[2].res.success
    /\ transfers[3].res.success
    /\ run.successCount = 2 /\ run.errorCount = 1
    /\ fileStatuses[1].status = "completed"
    /\ fileStatuses[2].status = "error"
    /\ fileStatuses[3].status = "completed"

\* C21: at most one upload transfer is in flight at any time, also when
\* the form is submitted again while a submission is running
C21_OneTransferInFlight == Cardinality(InFlight) <= 1

\* prepareUpload failed in the last step: the request for the upload URL
\* settled and no transfer was started
PrepareUploadFailed ==
    /\ lastStep.name = "prepareUpload"
    /\ run.pc # "performUpload"
    /\ transfers # <<>>

\* C22: after prepareUpload fails with the FileNameExists failure the
\* fileNameExist flag is true, and after it fails for another reason the
\* flag is false
C22_FileNameExistFlag ==
    PrepareUploadFailed =>
        (hook.fileNameExist
            <=> transfers[Len(transfers)].res.message = FileNameExists.message)

\* A Result r as the claim describes it, and ConvertFailure of it
ResultShape(r) ==
    /\ r.success => r.error = Undefined
    /\ ~r.success => r.message # Undefined
    /\ ~ConvertFailure(r).success
    /\ ConvertFailure(r).message = r.message
    /\ ConvertFailure(r).error = r.error

\* C24: a returned Result with success = true has no error, one with
\* success = false has a message, and ConvertFailure of it has
\* success = false with its message and its error; the Results are those
\* of the last orchestrator call, of the last query, and of
\* uploadSingleFile for each file handled
C24_ResultShape ==
    /\ ResultShape(last.res)
    /\ ResultShape(lastQuery.res)
    /\ \A k \in 1..Len(transfers) : ResultShape(transfers[k].res)

\* C24 witness: a batch in which one file was stored and the upload URL
\* request of another returned a failure that was converted, with an error
C24_Witness ==
    /\ \E k \in 1..Len(transfers) : transfers[k].res.success
    /\ \E k \in 1..Len(transfers) :
          /\ transfers[k].put = "none"
          /\ ~transfers[k].res.success
          /\ transfers[k].res.error # Undefined

\* C23: the progress of the hook and of every file is an integer of 0..100
C23_ProgressIsPercentage ==
    /\ hook.progress \in 0..100
    /\ \A i \in 1..Len(fileStatuses) : fileStatuses[i].progress \in 0..100

\* The segments of a key that are not empty
Segments(key) == FilterBoolean(Split(key, "/"))

\* The sequence without its last element, and the empty one for the empty
Front(seq) == IF seq = <<>> THEN <<>> ELSE SubSeq(seq, 1, Len(seq) - 1)

\* C25: renameDestinationKey replaces the last non-empty segment of the
\* key with newName and keeps the other segments: a file key keeps
\* everything up to its last slash and ends with newName; the result for
\* a directory key starts and ends with a slash, its last non-empty
\* segment is newName and the segments before it are those of the key
C25_RenameReplacesLastSegment ==
    lastKey.fn = "renameDestinationKey" =>
        IF EndsWith(lastKey.key, "/")
        THEN /\ StartsWith(lastKey.result, "/")
             /\ EndsWith(lastKey.result, "/")
             /\ Segments(lastKey.result) # <<>>
             /\ Last(Segments(lastKey.result)) = lastKey.newName
             /\ Front(Segments(lastKey.result)) = Front(Segments(lastKey.key))
        ELSE lastKey.result
                 = SubSeq(lastKey.key, 1, LastIndexOf(lastKey.key, "/"))
                       \o lastKey.newName

\* The part of the listed key k below the source directory of the last run
RelativeKey(k) ==
    SubSeq(k, Len(last.dispatch.sourceKey) + 1, Len(k))

\* C26: a directory copy that succeeds has written every listed descendant
\* S + rel of the source directory S to D + rel under the destination D,
\* for a source directory at any depth
C26_DirectoryCopyKeepsRelativeKeys ==
    (DirectoryRun("copy") /\ last.res.success /\ last.F = {})
        => \A j \in 1..Len(ListedObjects) :
              /\ IsPrefix(last.dispatch.sourceKey, ListedObjects[j])
              /\ (last.dispatch.destination \o RelativeKey(ListedObjects[j]))
                     \in bucket

\* The key of the directory that holds the object of key k
ParentKey(k) ==
    IF EndsWith(k, "/")
    THEN SubSeq(k, 1, LastIndexOf(SubSeq(k, 1, Len(k) - 1), "/"))
    ELSE SubSeq(k, 1, LastIndexOf(k, "/"))

\* The name of the file of key k
FileName(k) == SubSeq(k, LastIndexOf(k, "/") + 1, Len(k))

\* The last run renamed, with a name that is not empty, an object of the
\* directory the browser shows, and succeeded without a backend error
RenameSucceeded ==
    /\ OrchestratorReturned
    /\ last.dispatch.operationType = "rename"
    /\ last.res.success
    /\ last.F = {}
    /\ last.pre.path = ParentKey(last.dispatch.sourceKey)
    /\ Segments(last.dispatch.destination) # <<>>
    /\ Last(Segments(last.dispatch.destination)) \in NewNames \ {Empty}

\* C27: a rename that succeeds keeps the parent P of the object: a file is
\* stored at P + newName, every listed object of a directory is stored at
\* P + newName + '/' + rel, and no renamed object is left at its old key
C27_RenameKeepsParent ==
    RenameSucceeded =>
        LET P == ParentKey(last.dispatch.sourceKey)
            newName == Last(Segments(last.dispatch.destination)) IN
        IF last.dispatch.objectType = "FILE"
        THEN /\ (P \o newName) \in bucket
             /\ last.dispatch.sourceKey \notin bucket
        ELSE \A j \in 1..Len(ListedObjects) :
                /\ (P \o newName \o Slash \o RelativeKey(ListedObjects[j]))
                       \in bucket
                /\ ListedObjects[j] \notin bucket

\* createS3Directory was called with a name that is not empty after the
\* create dialog was opened for the current path: for a path that is not
\* the root the dialog has set sourceKey to the path and operationType to
\* create; for the root its setOperationContext('') has failed and left
\* the context as it was
CreateFlowRun ==
    /\ last.op = "createS3Directory"
    /\ last.F = {}
    /\ last.res.message # "New name cannot be empty"
    /\ IF last.pre.path = Empty
       THEN last.pre.operationType # "create"
       ELSE /\ last.pre.sourceKey = last.pre.path
            /\ last.pre.operationType = "create"

\* C28: the create dialog, at every current path P, writes exactly one
\* directory marker, at P + newName + '/'
C28_CreateFolderAtCurrentPath ==
    CreateFlowRun =>
        \E newName \in NewNames \ {Empty} :
            /\ Cardinality(CallsOf("PutObject")) = 1
            /\ \A i \in CallsOf("PutObject") :
                  last.log[i].key = last.pre.path \o newName \o Slash
            /\ (last.pre.path \o newName \o Slash) \in bucket

\* C29: a paste (copy or move) of a file that succeeds stores the object
\* at P + <file name> for the current path P, also for the root path
C29_PasteStoresUnderCurrentPath ==
    \A t \in {"copy", "move"} :
        (FileRun(t) /\ last.res.success /\ last.F = {})
            => (last.pre.path \o FileName(last.dispatch.sourceKey)) \in bucket

\* No listing request is in flight
Quiescent == \A i \in 1..Len(navCalls) : navCalls[i].out # "pending"

\* A listing was stored by one of the calls
ListingStored == \E i \in 1..Len(navCalls) : navCalls[i].out = "ok"

\* C30: once no navigation call is in flight, the stored object list is
\* the listing of the stored path (the bucket does not change while the
\* user navigates, so the listing fetched for a path is the backend's
\* listing of it)
C30_ListMatchesPath ==
    (Quiescent /\ ListingStored) => s3Objects = BackendListing

============================================================================
